---- MODULE Spec2Model ----
(***************************************************************************)
(* Resource Orchestration Core of SafeScale: the generic persistent object *)
(* (Core: Carry / Inspect / Alter / Reload / Delete over a metadata folder *)
(* with the two indices byID and byName) and the Network resource built on *)
(* it (Create, AttachHost, DetachHost, Delete).                            *)
(*                                                                         *)
(* Every method is cut into the steps at which another task can observe or *)
(* interleave: taking the TaskedLock, one object-storage call, one         *)
(* Shielded access, one provider call.  A task is a small machine: pc[t]   *)
(* is the step it is about to run, stack[t] the continuations of the       *)
(* methods that called the current one.                                    *)
(***************************************************************************)
EXTENDS Naturals, Sequences, FiniteSets, TLC

(***************************************************************************)
(* Bounds of the model.                                                    *)
(***************************************************************************)
\* number of top-level operations the tasks start in one behaviour
MaxOps == 3
\* number of object-storage calls that may fail in one behaviour
MaxFaults == 1

Tasks == {"t1", "t2"}
NoTask == "none"

(***************************************************************************)
(* abstract.Network, the payload of a network resource, and its JSON form. *)
(***************************************************************************)
\* networkstate.Enum; its first value is the zero value of the type
NetworkStates == <<"UNKNOWN", "GATEWAY_CREATION", "GATEWAY_CONFIGURATION", "READY", "ERROR">>

\* json tags of the fields of abstract.Network (all of them omitempty)
JSONTag ==
    [ID |-> "id", Name |-> "name", GatewayID |-> "gateway_id",
     SecondaryGatewayID |-> "secondary_gateway_id", VIP |-> "vip",
     NetworkState |-> "status"]

\* the zero value of a field: what omitempty leaves out
ZeroValue(f) == IF f = "NetworkState" THEN NetworkStates[1] ELSE ""

\* abstract.NewNetwork / &abstract.Network{}
NewNetwork(id, name) ==
    [ID |-> id, Name |-> name, GatewayID |-> "", SecondaryGatewayID |-> "",
     VIP |-> "", NetworkState |-> NetworkStates[1]]

\* Network.Serialize: json.Marshal, a field holding its zero value is omitted
Serialize(p) ==
    LET present == {f \in DOMAIN JSONTag : p[f] # ZeroValue(f)}
    IN  [j \in {JSONTag[f] : f \in present} |->
            p[CHOOSE f \in present : JSONTag[f] = j]]

\* Network.Deserialize: json.Unmarshal into the receiver, a field absent from
\* the document keeps the value the receiver had
Deserialize(buf, p) ==
    [f \in DOMAIN JSONTag |->
        IF JSONTag[f] \in DOMAIN buf THEN buf[JSONTag[f]] ELSE p[f]]

(***************************************************************************)
(* propertiesv1.NetworkHosts, the content of property hosts.v1.            *)
(***************************************************************************)
\* hosts that can be attached: two of them bear the same name
Hosts == {[id |-> "h1", name |-> "a"], [id |-> "h2", name |-> "b"],
          [id |-> "h3", name |-> "a"]}
HostIDs == {h.id : h \in Hosts}
HostByID(hid) == CHOOSE h \in Hosts : h.id = hid

EmptyMap == [x \in {} |-> ""]
MapPut(m, k, v) == [x \in DOMAIN m \cup {k} |-> IF x = k THEN v ELSE m[x]]
MapDel(m, k) == [x \in DOMAIN m \ {k} |-> m[x]]

NewNetworkHosts == [ByID |-> EmptyMap, ByName |-> EmptyMap]


(***************************************************************************)
(* serialize.JSONProperties: the properties of the resource, kept in       *)
(* memory beside the payload.  The only property of a network is hosts.v1; *)
(* properties is <<>> while that key was never altered, <<hosts>> after.   *)
(***************************************************************************)
NewJSONProperties == <<>>

\* the value JSONProperties.Alter hands to its callback: the one stored
\* under hosts.v1, an empty one when the key is unknown
PropsLookup(props) == IF props = <<>> THEN NewNetworkHosts ELSE props[1]

\* JSONProperties.Alter(hosts.v1, fn), out being fn(PropsLookup(props)): the
\* altered value replaces the stored one when fn succeeds
PropsAlter(props, out) ==
    [err |-> out.err, props |-> IF out.err = "" THEN <<out.value>> ELSE props]

\* JSONProperties.Inspect(hosts.v1, fn), err being fn(PropsLookup(props)): an
\* unknown key is an error
PropsInspect(props, err) == IF props = <<>> THEN "NotFound" ELSE err

(***************************************************************************)
(* The callbacks handed to Core.Alter and Core.Inspect.                    *)
(***************************************************************************)
\* Network.Create: an.NetworkState = s
SetStateCb(s, payload, props) ==
    [err |-> "", payload |-> [payload EXCEPT !.NetworkState = s], props |-> props]

\* Network.AttachHost: ByID[hostID] = hostName, ByName[hostName] = hostID
AttachHostCb(h, payload, props) ==
    LET fn(nh) == [err |-> "",
                   value |-> [ByID |-> MapPut(nh.ByID, h.id, h.name),
                              ByName |-> MapPut(nh.ByName, h.name, h.id)]]
        r == PropsAlter(props, fn(PropsLookup(props)))
    IN  [err |-> r.err, payload |-> payload, props |-> r.props]

\* a DetachHost that reports a host it does not find
DetachHostStrictCb(hostID, payload, props) ==
    LET fn(nh) ==
            IF hostID \in DOMAIN nh.ByID
            THEN [err |-> "",
                  value |-> [ByID |-> MapDel(nh.ByID, hostID),
                             ByName |-> MapDel(nh.ByName, nh.ByID[hostID])]]
            ELSE [err |-> "NotFound", value |-> nh]
        r == PropsAlter(props, fn(PropsLookup(props)))
    IN  [err |-> r.err, payload |-> payload, props |-> r.props]

\* Network.DetachHost: when ByID holds hostID, both entries are deleted
DetachHostCb(hostID, payload, props) ==
    LET fn(nh) ==
            IF hostID \in DOMAIN nh.ByID
            THEN [err |-> "",
                  value |-> [ByID |-> MapDel(nh.ByID, hostID),
                             ByName |-> MapDel(nh.ByName, nh.ByID[hostID])]]
            ELSE [err |-> "", value |-> nh]
        r == PropsAlter(props, fn(PropsLookup(props)))
    IN  [err |-> r.err, payload |-> payload, props |-> r.props]

\* a callback recording the primary gateway: an.GatewayID = id
SetGatewayIDCb(gw, payload, props) ==
    [err |-> "", payload |-> [payload EXCEPT !.GatewayID = gw], props |-> props]

\* a callback that changes the payload it was given and then fails
FailingCb(payload, props) ==
    [err |-> "CallbackError",
     payload |-> [payload EXCEPT !.NetworkState = "ERROR"], props |-> props]

\* a callback that alters a property with success and then fails on a later
\* step (the pattern of callbacks altering several properties in a row)
AlterPropsThenFailCb(h, payload, props) ==
    [err |-> "CallbackError", payload |-> payload,
     props |-> AttachHostCb(h, payload, props).props]

\* Network.Create: the callback that fills the userdata of the gateways; it
\* changes no field of the payload (the assignments of GatewayID and
\* SecondaryGatewayID are commented out)
UserdataCb(payload, props) == [err |-> "", payload |-> payload, props |-> props]

\* the callback of Core.Inspect used by the queries: reads, changes nothing
ReadCb(payload, props) == [err |-> "", payload |-> payload, props |-> props]

\* a callback as a value: its kind and its captured variables
Callback(kind, state, host) == [kind |-> kind, state |-> state, host |-> host]
NoCallback == Callback("None", "", "")

\* callbacks that change the identity of the payload: its Name, its ID
RenameCb(newName, payload, props) ==
    [err |-> "", payload |-> [payload EXCEPT !.Name = newName], props |-> props]
SetIDCb(newID, payload, props) ==
    [err |-> "", payload |-> [payload EXCEPT !.ID = newID], props |-> props]

RunCallback(cb, payload, props) ==
    CASE cb.kind = "SetState" -> SetStateCb(cb.state, payload, props)
      [] cb.kind = "Rename" -> RenameCb(cb.state, payload, props)
      [] cb.kind = "SetID" -> SetIDCb(cb.host, payload, props)
      [] cb.kind = "SetGatewayID" -> SetGatewayIDCb(cb.host, payload, props)
      [] cb.kind = "AttachHost" -> AttachHostCb(HostByID(cb.host), payload, props)
      [] cb.kind = "DetachHost" -> DetachHostCb(cb.host, payload, props)
      [] cb.kind = "Userdata" -> UserdataCb(payload, props)
      [] cb.kind = "Failing" -> FailingCb(payload, props)
      [] cb.kind = "AlterPropsThenFail" ->
            AlterPropsThenFailCb(HostByID(cb.host), payload, props)
      [] OTHER -> ReadCb(payload, props)

(***************************************************************************)
(* State.                                                                  *)
(***************************************************************************)
VARIABLES
    byID,        \* metadata folder, subfolder byID: key -> stored document
    byName,      \* metadata folder, subfolder byName
    shielded,    \* Core.shielded: <<>> (nil) or <<payload>>
    properties,  \* Core.properties
    name,        \* Core.name, the cached name ("" while never stored)
    id,          \* Core.id, the cached id
    lock,        \* the TaskedLock embedded in Core
    pc,          \* per task: the step it runs next ("idle": no call)
    stack,       \* per task: the steps to resume when the current call returns
    call,        \* per task: the Core method running and its arguments
    res,         \* per task: the error returned by the last call ("ok": nil)
    found,       \* per task: idFound, nameFound of Core.Delete
    faults,      \* object-storage calls that failed so far
    nops,        \* top-level operations started so far
    obs,         \* per task: what the running call did (for the properties)
    deleted,     \* Core.Delete returned nil and no payload was carried since
    base,        \* payload and properties when Carry last returned nil (the
                 \* four that follow: for calls made on the Core directly)
    hist,        \* callbacks of the Alters that returned nil since, in order
    clean,       \* since base, nothing but Alter and Inspect ran, none failed
    overlapped,  \* since base, an Alter began while another one was running
    rev,         \* the document the last Alter or Carry that returned nil wrote
    errvals,     \* the fail package: the error values built and what was asked
    listing,     \* a paginated listing of the GCP stack that is running
    scanner,     \* the scanner: an analyzeTenant that is running
    prov,        \* the provider: the resources it holds
    net          \* the Network method running: its arguments, locals and trace

vars == <<byID, byName, shielded, properties, name, id, lock, pc, stack, call,
          res, found, faults, nops, obs, deleted, base, hist, clean, overlapped,
          rev, errvals, listing, scanner, prov, net>>

\* no error was built, no listing and no scan is running
OtherPartsAtRest == errvals = <<>> /\ listing = <<>> /\ scanner = <<>>

\* Core.kind as set by NewCore(svc, "network", ...)
kind == "network"

\* Core.IsNull
IsNull == kind = "" \/ kind = "nil"

\* Core.SafeGetID, Core.SafeGetName
SafeGetID == IF IsNull THEN "<NullCore>" ELSE id
SafeGetName == IF IsNull THEN "<NullCore>" ELSE name

(***************************************************************************)
(* concurrency.TaskedLock: a reader/writer lock that knows the task.  The  *)
(* task holding the write lock may take it, or the read lock, again.       *)
(***************************************************************************)
NewTaskedLock == [owner |-> NoTask, depth |-> 0, readers |-> [t \in Tasks |-> 0]]

\* a write lock that its holder cannot take again
CanLockOnce(t) ==
    /\ lock.owner = NoTask
    /\ \A u \in Tasks \ {t} : lock.readers[u] = 0

CanLock(t) ==
    \/ lock.owner = t
    \/ lock.owner = NoTask /\ \A u \in Tasks \ {t} : lock.readers[u] = 0

SafeLock(t) == [lock EXCEPT !.owner = t, !.depth = @ + 1]

SafeUnlock(t) ==
    [lock EXCEPT !.depth = @ - 1,
                 !.owner = IF lock.depth = 1 THEN NoTask ELSE t]

CanRLock(t) == lock.owner \in {NoTask, t}

SafeRLock(t) == [lock EXCEPT !.readers[t] = @ + 1]

SafeRUnlock(t) == [lock EXCEPT !.readers[t] = @ - 1]

\* how many times the task holds the write lock and the read lock
Holds(t) ==
    [write |-> IF lock.owner = t THEN lock.depth ELSE 0,
     read |-> lock.readers[t]]

(***************************************************************************)
(* The provider (iaas.Service) and the Network method a task runs.         *)
(***************************************************************************)
\* the provider holds nothing; caps is GetCapabilities().PrivateVirtualIP
\* networks: the ids of the networks the provider holds, followed where
\* several Creates run
NoProv ==
    [network |-> FALSE, networks |-> {}, vip |-> FALSE, keypair |-> FALSE,
     hosts |-> {}, hostmeta |-> {}, bound |-> {}, caps |-> FALSE]

\* abstract.NetworkRequest, with the gateway name asked for
NoReq == [name |-> "", cidr |-> "", ha |-> FALSE, keep |-> FALSE, gwname |-> ""]

NoNet ==
    [op |-> "",              \* the method: "Create", "Delete", ...
     req |-> NoReq,          \* req and gwname of Create
     an |-> <<>>,            \* the network CreateNetwork returned
     failover |-> FALSE,
     gw |-> [primary |-> <<>>, secondary |-> <<>>],      \* names of the gateways
     task |-> [primary |-> "none", secondary |-> "none"], \* the subtasks
     final |-> [primary |-> "none", secondary |-> "none"], \* the final subtasks
     defers |-> <<>>,        \* deferred compensations, in order of registration
     registered |-> <<>>,    \* every compensation registered
     ran |-> <<>>,           \* compensations carried out, in order
     xerr |-> "",            \* the error the method returns ("": nil)
     conseq |-> <<>>,        \* consequences added to xerr
     outcomes |-> <<>>,      \* the error of every call a compensation made
     plog |-> <<>>,          \* provider calls made, in order
     pfaults |-> 0,          \* provider and task calls of Create that failed
     perr |-> <<>>,          \* provider calls of Delete that returned an error
     dgw |-> <<>>,           \* the calls of deleteGateway: outcomes and result
     route |-> <<>>,         \* what GetDefaultRouteIP returned: ip and error
     pre |-> <<>>,           \* metadata, properties and provider at the start
     aborted |-> FALSE,      \* the task was aborted
     done |-> FALSE]         \* the method has returned

(***************************************************************************)
(* What a call did, recorded for the properties.                           *)
(***************************************************************************)
NoObs ==
    [touched |-> FALSE,  \* an object-storage call was made
     wrote |-> FALSE,    \* an object-storage write or delete was made
     cbRan |-> FALSE,    \* the callback was run
     postDel |-> FALSE,  \* the call began on an instance Delete had cleared
     split |-> FALSE,    \* byID/<id> and byName/<name> differed at the lock
     held |-> <<>>,      \* what the task held of the lock before the call took it
     rel |-> <<>>,       \* payload and properties as Reload left them
     ident |-> <<>>,     \* id and name of the payload when Delete began
     preID |-> FALSE,    \* byID/<id> existed when Delete began
     preName |-> FALSE]  \* byName/<name> existed when Delete began

NoCall == [fn |-> "", cb |-> NoCallback, payload |-> <<>>]

\* the running call returns: its caller resumes with the result in res[t],
\* or the task is idle again
Return(t) ==
    IF stack[t] = <<>>
    THEN /\ pc' = [pc EXCEPT ![t] = "idle"]
         /\ stack' = stack
         /\ call' = [call EXCEPT ![t] = NoCall]
         /\ res' = [res EXCEPT ![t] = ""]
         /\ obs' = [obs EXCEPT ![t] = NoObs]
         /\ found' = [found EXCEPT ![t] = [id |-> FALSE, name |-> FALSE]]
    ELSE /\ pc' = [pc EXCEPT ![t] = Head(stack[t])]
         /\ stack' = [stack EXCEPT ![t] = Tail(@)]
         /\ UNCHANGED <<call, res, obs, found>>

Goto(t, label) == pc' = [pc EXCEPT ![t] = label] /\ stack' = stack

\* the task enters Core method c.fn
Enter(t, c) ==
    /\ call' = [call EXCEPT ![t] = c]
    /\ res' = [res EXCEPT ![t] = ""]
    /\ obs' = [obs EXCEPT ![t] = [NoObs EXCEPT !.postDel = deleted]]

\* a shielded.Alter of another task cannot run while c.write, inside its
\* shielded.Inspect, is between its two folder writes
ShieldedFree(t) == \A u \in Tasks \ {t} : pc[u] # "WriteID"

(***************************************************************************)
(* Core.Reload                                                             *)
(***************************************************************************)
\* a Reload that keeps the payload it has when byID/<id> is gone
ReloadKeepsPayload ==
    IF IsNull \/ shielded = <<>>
    THEN [err |-> "InvalidInstance", shielded |-> shielded, read |-> FALSE]
    ELSE [err |-> "",
          shielded |-> IF SafeGetID \in DOMAIN byID
                       THEN <<Deserialize(byID[SafeGetID], shielded[1])>>
                       ELSE shielded,
          read |-> TRUE]

\* Core.readByID under Core.Reload: the outcome and the payload afterwards
Reload ==
    IF IsNull THEN [err |-> "InvalidInstance", shielded |-> shielded, read |-> FALSE]
    ELSE IF shielded = <<>>
    THEN [err |-> "InvalidInstance", shielded |-> shielded, read |-> FALSE]
    ELSE IF SafeGetID \notin DOMAIN byID
    THEN [err |-> "NotFound", shielded |-> shielded, read |-> TRUE]
    ELSE [err |-> "",
          shielded |-> <<Deserialize(byID[SafeGetID], shielded[1])>>,
          read |-> TRUE]

\* the exported Core.Reload called by a task of its own: no lock is taken
CoreReload(t) ==
    /\ pc[t] = "Reload"
    /\ ShieldedFree(t)
    /\ shielded' = Reload.shielded
    /\ res' = [res EXCEPT ![t] = IF Reload.err = "" THEN "ok" ELSE Reload.err]
    /\ obs' = [obs EXCEPT ![t].touched = Reload.read]
    /\ clean' = FALSE
    /\ Goto(t, "Done")
    /\ UNCHANGED <<byID, byName, properties, name, id, lock, call, found,
                   faults, nops, deleted, base, hist, rev, errvals,
                   listing, scanner, overlapped, prov, net>>

\* a call that took no lock returns
CoreDone(t) ==
    /\ pc[t] = "Done"
    /\ Return(t)
    /\ UNCHANGED <<byID, byName, shielded, properties, name, id, lock, faults,
                   nops, deleted, base, hist, rev, errvals,
                   listing, scanner, clean, overlapped, prov, net>>

(***************************************************************************)
(* Core.write: the payload is serialised and put under byName/<name>, then *)
(* under byID/<id>; the first put that fails ends the write.               *)
(***************************************************************************)
\* a write that never puts the document under byName
WriteByNameSkipped(ok) == byName

\* the folder.Write calls of Core.write, and what each leaves behind
WriteByName(ok) ==
    IF ok /\ shielded # <<>>
    THEN MapPut(byName, shielded[1].Name, Serialize(shielded[1])) ELSE byName

\* a write that never puts the document under byID
WriteByIDSkipped(ok) == byID

WriteByID(ok) ==
    IF ok /\ shielded # <<>>
    THEN MapPut(byID, shielded[1].ID, Serialize(shielded[1])) ELSE byID

CoreWriteName(t) ==
    /\ pc[t] = "WriteName"
    /\ \E ok \in BOOLEAN :
        /\ ok \/ faults < MaxFaults
        /\ byName' = WriteByName(ok)
        /\ faults' = IF ok THEN faults ELSE faults + 1
        /\ res' = [res EXCEPT ![t] = IF shielded = <<>> THEN "InvalidInstance"
                                     ELSE IF ok THEN "" ELSE "StorageError"]
        /\ obs' = [obs EXCEPT ![t].touched = TRUE, ![t].wrote = TRUE]
        /\ Goto(t, IF ok /\ shielded # <<>> THEN "WriteID" ELSE "Unlock")
    /\ UNCHANGED <<byID, shielded, properties, name, id, lock, call, found,
                   nops, deleted, base, hist, rev, errvals,
                   listing, scanner, clean, overlapped, prov, net>>

CoreWriteID(t) ==
    /\ pc[t] = "WriteID"
    /\ \E ok \in BOOLEAN :
        /\ ok \/ faults < MaxFaults
        /\ byID' = WriteByID(ok)
        /\ faults' = IF ok THEN faults ELSE faults + 1
        /\ res' = [res EXCEPT ![t] = IF shielded = <<>> THEN "InvalidInstance"
                                     ELSE IF ok THEN "ok" ELSE "StorageError"]
    /\ Goto(t, "Unlock")
    /\ UNCHANGED <<byName, shielded, properties, name, id, lock, call, found,
                   nops, obs, deleted, base, hist, rev, errvals,
                   listing, scanner, clean, overlapped, prov, net>>

\* the deferred SafeUnlock of Alter, Carry and Delete, then the return
CoreUnlock(t) ==
    /\ pc[t] = "Unlock"
    /\ lock' = SafeUnlock(t)
    /\ Return(t)
    /\ deleted' = IF call[t].fn = "Delete" /\ res[t] = "ok" THEN TRUE ELSE deleted
    /\ IF net.op # ""
       THEN UNCHANGED <<base, hist, clean, overlapped>>
       ELSE IF call[t].fn = "Carry" /\ res[t] = "ok"
       THEN /\ base' = <<[payload |-> shielded[1], props |-> properties]>>
            /\ hist' = <<>>
            /\ clean' = TRUE
            /\ overlapped' = FALSE
       ELSE IF call[t].fn = "Alter" /\ res[t] = "ok"
       THEN /\ hist' = Append(hist, call[t].cb)
            /\ UNCHANGED <<base, clean, overlapped>>
       ELSE /\ clean' = FALSE
            /\ UNCHANGED <<base, hist, overlapped>>
    /\ rev' = IF net.op # "" \/ res[t] # "ok" THEN rev
              ELSE IF call[t].fn \in {"Alter", "Carry"} THEN <<Serialize(shielded[1])>>
              ELSE IF call[t].fn = "Delete" THEN <<>>
              ELSE rev
    /\ UNCHANGED <<byID, byName, shielded, properties, name, id, faults, nops,
                   errvals, listing, scanner, prov, net>>

\* byID/<id> and byName/<name> of the object both exist and hold the same
\* document
IndicesAgree ==
    /\ id \in DOMAIN byID
    /\ name \in DOMAIN byName
    /\ byID[id] = byName[name]

\* an Alter that goes on without waiting for the lock
CoreAlterNoLock(t) ==
    /\ pc[t] = "Alter"
    /\ lock' = SafeLock(t)
    /\ Goto(t, "AlterReload")
    /\ UNCHANGED <<byID, byName, shielded, properties, name, id, call, res, found,
                   faults, nops, obs, deleted, base, hist, rev, errvals,
                   listing, scanner, clean, overlapped, prov, net>>

(***************************************************************************)
(* Core.Alter                                                              *)
(***************************************************************************)
CoreAlterLock(t) ==
    /\ pc[t] = "Alter"
    /\ IF IsNull
       THEN /\ res' = [res EXCEPT ![t] = "InvalidInstance"]
            /\ Goto(t, "Done")
            /\ UNCHANGED <<lock, obs>>
       ELSE /\ CanLock(t)
            /\ lock' = SafeLock(t)
            /\ obs' = [obs EXCEPT ![t].split = ~IndicesAgree,
                                  ![t].held = <<Holds(t)>>]
            /\ Goto(t, "AlterReload")
            /\ UNCHANGED res
    /\ UNCHANGED <<byID, byName, shielded, properties, name, id, call, found,
                   faults, nops, deleted, base, hist, rev, errvals,
                   listing, scanner, clean, overlapped, prov, net>>

\* an Alter that returns the error of Reload without its deferred SafeUnlock
CoreAlterReloadNoDefer(t) ==
    /\ pc[t] = "AlterReload"
    /\ ShieldedFree(t)
    /\ shielded' = Reload.shielded
    /\ res' = [res EXCEPT ![t] = Reload.err]
    /\ obs' = [obs EXCEPT ![t].touched = Reload.read,
                          ![t].rel = IF Reload.err = ""
                                     THEN <<[payload |-> Reload.shielded[1],
                                             props |-> properties]>>
                                     ELSE <<>>]
    /\ Goto(t, IF Reload.err = "" THEN "AlterCallback" ELSE "Done")
    /\ UNCHANGED <<byID, byName, properties, name, id, lock, call, found,
                   faults, nops, deleted, base, hist, rev, errvals,
                   listing, scanner, clean, overlapped, prov, net>>

CoreAlterReload(t) ==
    /\ pc[t] = "AlterReload"
    /\ ShieldedFree(t)
    /\ shielded' = Reload.shielded
    /\ res' = [res EXCEPT ![t] = Reload.err]
    /\ obs' = [obs EXCEPT ![t].touched = Reload.read,
                          ![t].rel = IF Reload.err = ""
                                     THEN <<[payload |-> Reload.shielded[1],
                                             props |-> properties]>>
                                     ELSE <<>>]
    /\ Goto(t, IF Reload.err = "" THEN "AlterCallback" ELSE "Unlock")
    /\ UNCHANGED <<byID, byName, properties, name, id, lock, call, found,
                   faults, nops, deleted, base, hist, rev, errvals,
                   listing, scanner, clean, overlapped, prov, net>>

\* shielded.Alter(callback): the callback works on a clone of the payload,
\* which replaces the payload when the callback returns nil; the properties
\* are handed over as they are
ShieldedAlter(cb) ==
    IF shielded = <<>>
    THEN [err |-> "InvalidInstance", shielded |-> shielded, properties |-> properties]
    ELSE LET out == RunCallback(cb, shielded[1], properties)
         IN  [err |-> out.err,
              shielded |-> IF out.err = "" THEN <<out.payload>> ELSE shielded,
              properties |-> out.props]

CoreAlterCallback(t) ==
    /\ pc[t] = "AlterCallback" /\ call[t].cb.kind # "NetDelete"
    /\ ShieldedFree(t)
    /\ LET out == ShieldedAlter(call[t].cb)
       IN  /\ shielded' = out.shielded
           /\ properties' = out.properties
           /\ res' = [res EXCEPT ![t] = out.err]
           /\ Goto(t, IF out.err = "" THEN "WriteName" ELSE "Unlock")
    /\ obs' = [obs EXCEPT ![t].cbRan = TRUE]
    /\ UNCHANGED <<byID, byName, name, id, lock, call, found, faults, nops,
                   deleted, base, hist, rev, errvals,
                   listing, scanner, clean, overlapped, prov, net>>

\* a Carry that does not look at c.shielded before it goes on
CoreCarryUnchecked(t) ==
    /\ pc[t] = "Carry"
    /\ Goto(t, "CarryLock")
    /\ UNCHANGED <<byID, byName, shielded, properties, name, id, lock, call, res,
                   found, faults, nops, obs, deleted, base, hist, rev, errvals,
                   listing, scanner, clean, overlapped, prov, net>>

(***************************************************************************)
(* Core.Carry                                                              *)
(***************************************************************************)
\* the test of c.shielded comes before the lock is taken
CoreCarryCheck(t) ==
    /\ pc[t] = "Carry"
    /\ IF IsNull \/ shielded # <<>>
       THEN /\ res' = [res EXCEPT ![t] = IF IsNull THEN "InvalidInstance"
                                        ELSE "NotAvailable"]
            /\ Goto(t, "Done")
       ELSE /\ Goto(t, "CarryLock")
            /\ UNCHANGED res
    /\ UNCHANGED <<byID, byName, shielded, properties, name, id, lock, call,
                   found, faults, nops, obs, deleted, base, hist, rev, errvals,
                   listing, scanner, clean, overlapped, prov, net>>

\* Core.updateIdentity: the cached name and id become those of the payload
UpdateIdentity(sh) ==
    IF sh # <<>> THEN [name |-> sh[1].Name, id |-> sh[1].ID]
    ELSE [name |-> "", id |-> ""]

\* SafeLock, c.shielded = NewShielded(clonable), updateIdentity
CoreCarryLock(t) ==
    /\ pc[t] = "CarryLock"
    /\ CanLock(t)
    /\ lock' = SafeLock(t)
    /\ shielded' = call[t].payload
    /\ name' = UpdateIdentity(call[t].payload).name
    /\ id' = UpdateIdentity(call[t].payload).id
    /\ deleted' = FALSE
    /\ obs' = [obs EXCEPT ![t].held = <<Holds(t)>>]
    /\ Goto(t, "WriteName")
    /\ UNCHANGED <<byID, byName, properties, call, res, found, faults, nops,
                   base, hist, rev, errvals,
                   listing, scanner, clean, overlapped, prov, net>>

(***************************************************************************)
(* Core.Read                                                               *)
(***************************************************************************)
\* the test of c.shielded comes before the lock is taken, as in Carry
CoreReadCheck(t) ==
    /\ pc[t] = "Read"
    /\ IF IsNull \/ call[t].cb.host = "" \/ shielded # <<>>
       THEN /\ res' = [res EXCEPT ![t] = IF IsNull THEN "InvalidInstance"
                                        ELSE IF call[t].cb.host = ""
                                        THEN "InvalidParameter"
                                        ELSE "NotAvailable"]
            /\ Goto(t, "Done")
       ELSE /\ Goto(t, "ReadLock")
            /\ UNCHANGED res
    /\ UNCHANGED <<byID, byName, shielded, properties, name, id, lock, call,
                   found, faults, nops, obs, deleted, base, hist, rev, errvals,
                   listing, scanner, clean, overlapped, prov, net>>

CoreReadLock(t) ==
    /\ pc[t] = "ReadLock"
    /\ CanLock(t)
    /\ lock' = SafeLock(t)
    /\ obs' = [obs EXCEPT ![t].held = <<Holds(t)>>]
    /\ Goto(t, "ReadByReference")
    /\ UNCHANGED <<byID, byName, shielded, properties, name, id, call, res, found,
                   faults, nops, deleted, base, hist, rev, errvals,
                   listing, scanner, clean, overlapped, prov, net>>

\* Core.readByReference under the retry of Core.Read: readByID, then
\* readByName when the id is not found, both through c.shielded.Alter; only
\* NotFound is tried again, and the lock held keeps the folder as it is, so
\* the retry ends in NotFound
ReadByReference(ref) ==
    IF shielded = <<>>
    THEN [err |-> "InvalidInstance", shielded |-> shielded, read |-> FALSE]
    ELSE IF ref \in DOMAIN byID
    THEN [err |-> "", shielded |-> <<Deserialize(byID[ref], shielded[1])>>,
          read |-> TRUE]
    ELSE IF ref \in DOMAIN byName
    THEN [err |-> "", shielded |-> <<Deserialize(byName[ref], shielded[1])>>,
          read |-> TRUE]
    ELSE [err |-> "NotFound", shielded |-> shielded, read |-> TRUE]

\* the retry of readByReference, then updateIdentity when it succeeded
CoreReadByReference(t) ==
    /\ pc[t] = "ReadByReference"
    /\ ShieldedFree(t)
    /\ LET out == ReadByReference(call[t].cb.host)
       IN  /\ shielded' = out.shielded
           /\ name' = IF out.err = "" THEN UpdateIdentity(out.shielded).name ELSE name
           /\ id' = IF out.err = "" THEN UpdateIdentity(out.shielded).id ELSE id
           /\ res' = [res EXCEPT ![t] = IF out.err = "" THEN "ok" ELSE out.err]
           /\ obs' = [obs EXCEPT ![t].touched = out.read]
    /\ Goto(t, "Unlock")
    /\ UNCHANGED <<byID, byName, properties, lock, call, found, faults, nops,
                   deleted, base, hist, rev, errvals,
                   listing, scanner, clean, overlapped, prov, net>>

(***************************************************************************)
(* Core.Inspect                                                            *)
(***************************************************************************)
CoreInspectLock(t) ==
    /\ pc[t] = "Inspect"
    /\ IF IsNull
       THEN /\ res' = [res EXCEPT ![t] = "InvalidInstance"]
            /\ Goto(t, "Done")
            /\ UNCHANGED <<lock, obs>>
       ELSE /\ CanRLock(t)
            /\ lock' = SafeRLock(t)
            /\ obs' = [obs EXCEPT ![t].held = <<Holds(t)>>]
            /\ Goto(t, "InspectReload")
            /\ UNCHANGED res
    /\ UNCHANGED <<byID, byName, shielded, properties, name, id, call, found,
                   faults, nops, deleted, base, hist, rev, errvals,
                   listing, scanner, clean, overlapped, prov, net>>

CoreInspectReload(t) ==
    /\ pc[t] = "InspectReload"
    /\ ShieldedFree(t)
    /\ shielded' = Reload.shielded
    /\ res' = [res EXCEPT ![t] = Reload.err]
    /\ obs' = [obs EXCEPT ![t].touched = Reload.read,
                          ![t].rel = IF Reload.err = ""
                                     THEN <<[payload |-> Reload.shielded[1],
                                             props |-> properties]>>
                                     ELSE <<>>]
    /\ Goto(t, IF Reload.err = "" THEN "InspectCallback" ELSE "RUnlock")
    /\ UNCHANGED <<byID, byName, properties, name, id, lock, call, found,
                   faults, nops, deleted, base, hist, rev, errvals,
                   listing, scanner, clean, overlapped, prov, net>>

\* shielded.Inspect(callback): the callback reads a clone of the payload
ShieldedInspect(cb) ==
    IF shielded = <<>> THEN "InvalidInstance"
    ELSE RunCallback(cb, shielded[1], properties).err

CoreInspectCallback(t) ==
    /\ pc[t] = "InspectCallback"
    /\ call[t].cb.kind \notin {"GetDefaultRouteIP", "GetEndpointIP"}
    /\ res' = [res EXCEPT ![t] = IF ShieldedInspect(call[t].cb) = "" THEN "ok"
                                 ELSE ShieldedInspect(call[t].cb)]
    /\ obs' = [obs EXCEPT ![t].cbRan = TRUE]
    /\ Goto(t, "RUnlock")
    /\ UNCHANGED <<byID, byName, shielded, properties, name, id, lock, call,
                   found, faults, nops, deleted, base, hist, rev, errvals,
                   listing, scanner, clean, overlapped, prov, net>>

\* the deferred SafeRUnlock of Inspect, then the return
CoreRUnlock(t) ==
    /\ pc[t] = "RUnlock"
    /\ lock' = SafeRUnlock(t)
    /\ Return(t)
    /\ clean' = (clean /\ res[t] = "ok")
    /\ UNCHANGED <<byID, byName, shielded, properties, name, id, faults, nops,
                   deleted, base, hist, rev, errvals,
                   listing, scanner, overlapped, prov, net>>

(***************************************************************************)
(* Core.Delete                                                             *)
(***************************************************************************)
CoreDeleteLock(t) ==
    /\ pc[t] = "Delete"
    /\ IF IsNull
       THEN /\ res' = [res EXCEPT ![t] = "InvalidInstance"]
            /\ Goto(t, "Done")
            /\ UNCHANGED <<lock, obs>>
       ELSE /\ CanLock(t)
            /\ lock' = SafeLock(t)
            /\ obs' = [obs EXCEPT ![t].held = <<Holds(t)>>, ![t].ident =
                          IF shielded = <<>> THEN <<>>
                          ELSE <<[id |-> shielded[1].ID, name |-> shielded[1].Name]>>]
            /\ Goto(t, "DeleteSearch")
            /\ UNCHANGED res
    /\ UNCHANGED <<byID, byName, shielded, properties, name, id, call, found,
                   faults, nops, deleted, base, hist, rev, errvals,
                   listing, scanner, clean, overlapped, prov, net>>

\* folder.Search of byID/<id> and of byName/<name>: a missing entry is no error
CoreDeleteSearch(t) ==
    /\ pc[t] = "DeleteSearch"
    /\ found' = [found EXCEPT ![t] = [id |-> SafeGetID \in DOMAIN byID,
                                      name |-> SafeGetName \in DOMAIN byName]]
    /\ obs' = [obs EXCEPT ![t].touched = TRUE,
                          ![t].preID = SafeGetID \in DOMAIN byID,
                          ![t].preName = SafeGetName \in DOMAIN byName]
    /\ Goto(t, "DeleteID")
    /\ UNCHANGED <<byID, byName, shielded, properties, name, id, lock, call,
                   res, faults, nops, deleted, base, hist, rev, errvals,
                   listing, scanner, clean, overlapped, prov, net>>

\* if idFound, folder.Delete(byID, id)
CoreDeleteID(t) ==
    /\ pc[t] = "DeleteID"
    /\ \E ok \in BOOLEAN :
        /\ ok \/ (found[t].id /\ faults < MaxFaults)
        /\ byID' = IF ok /\ found[t].id THEN MapDel(byID, SafeGetID) ELSE byID
        /\ faults' = IF ok THEN faults ELSE faults + 1
        /\ res' = [res EXCEPT ![t] = IF ok THEN "" ELSE "StorageError"]
        /\ Goto(t, IF ok THEN "DeleteName" ELSE "Unlock")
    /\ obs' = [obs EXCEPT ![t].wrote = @ \/ found[t].id]
    /\ UNCHANGED <<byName, shielded, properties, name, id, lock, call, found,
                   nops, deleted, base, hist, rev, errvals,
                   listing, scanner, clean, overlapped, prov, net>>

\* a Delete that leaves byName/<name> in place
CoreDeleteNameKept(t) ==
    /\ pc[t] = "DeleteName"
    /\ shielded' = <<>>
    /\ res' = [res EXCEPT ![t] = "ok"]
    /\ Goto(t, "Unlock")
    /\ UNCHANGED <<byID, byName, properties, name, id, lock, call, found, faults,
                   nops, obs, deleted, base, hist, rev, errvals,
                   listing, scanner, clean, overlapped, prov, net>>

\* if nameFound, folder.Delete(byName, name); then c.shielded = nil
CoreDeleteName(t) ==
    /\ pc[t] = "DeleteName"
    /\ \E ok \in BOOLEAN :
        /\ ok \/ (found[t].name /\ faults < MaxFaults)
        /\ byName' = IF ok /\ found[t].name THEN MapDel(byName, SafeGetName)
                     ELSE byName
        /\ faults' = IF ok THEN faults ELSE faults + 1
        /\ shielded' = IF ok THEN <<>> ELSE shielded
        /\ res' = [res EXCEPT ![t] = IF ok THEN "ok" ELSE "StorageError"]
    /\ obs' = [obs EXCEPT ![t].wrote = @ \/ found[t].name]
    /\ Goto(t, "Unlock")
    /\ UNCHANGED <<byID, properties, name, id, lock, call, found, nops,
                   deleted, base, hist, rev, errvals,
                   listing, scanner, clean, overlapped, prov, net>>

(***************************************************************************)
(* The object under concurrent use: each task calls Carry, Alter, Inspect, *)
(* Reload and Delete in any order, MaxOps calls in all.                    *)
(***************************************************************************)
\* the network the model creates, as the provider describes it
TheNetwork == NewNetwork("net-1", "n1")

\* the payload once Network.Create has recorded the state GATEWAY_CREATION
CreatedNetwork == [TheNetwork EXCEPT !.NetworkState = NetworkStates[2]]

AlterCallbacks ==
    {Callback("SetState", "READY", ""), Callback("SetGatewayID", "", "gw-1")}
    \cup {Callback("AttachHost", "", h) : h \in {"h1", "h2"}}
    \cup {Callback("DetachHost", "", "h1")}
    \cup {Callback("Failing", "", ""), Callback("AlterPropsThenFail", "", "h2")}

CoreCalls ==
    {[fn |-> "Carry", cb |-> NoCallback, payload |-> <<TheNetwork>>]}
    \cup {[fn |-> "Alter", cb |-> cb, payload |-> <<>>] : cb \in AlterCallbacks}
    \cup {[fn |-> f, cb |-> Callback("Read", "", ""), payload |-> <<>>] :
            f \in {"Inspect", "Reload", "Delete"}}
    \cup {[fn |-> "Read", cb |-> Callback("Ref", "", ref), payload |-> <<>>] :
            ref \in {TheNetwork.ID, TheNetwork.Name}}

\* the object as NewCore leaves it, or carrying a network whose metadata
\* Carry and a first Alter have written
Init ==
    /\ \E carried \in BOOLEAN :
        /\ byID = IF carried
                  THEN MapPut(EmptyMap, CreatedNetwork.ID, Serialize(CreatedNetwork))
                  ELSE EmptyMap
        /\ byName = IF carried
                    THEN MapPut(EmptyMap, CreatedNetwork.Name, Serialize(CreatedNetwork))
                    ELSE EmptyMap
        /\ shielded = IF carried THEN <<CreatedNetwork>> ELSE <<>>
        /\ name = IF carried THEN CreatedNetwork.Name ELSE ""
        /\ id = IF carried THEN CreatedNetwork.ID ELSE ""
        /\ base = IF carried
                  THEN <<[payload |-> CreatedNetwork, props |-> NewJSONProperties]>>
                  ELSE <<>>
        /\ clean = carried
        /\ rev = IF carried THEN <<Serialize(CreatedNetwork)>> ELSE <<>>
        /\ OtherPartsAtRest
    /\ properties = NewJSONProperties
    /\ lock = NewTaskedLock
    /\ pc = [t \in Tasks |-> "idle"]
    /\ stack = [t \in Tasks |-> <<>>]
    /\ call = [t \in Tasks |-> NoCall]
    /\ res = [t \in Tasks |-> ""]
    /\ found = [t \in Tasks |-> [id |-> FALSE, name |-> FALSE]]
    /\ faults = 0
    /\ nops = 0
    /\ obs = [t \in Tasks |-> NoObs]
    /\ deleted = FALSE
    /\ hist = <<>>
    /\ overlapped = FALSE
    /\ prov = NoProv
    /\ net = NoNet

\* a task calls a method of the object
StartCall(t) ==
    /\ pc[t] = "idle"
    /\ nops < MaxOps
    /\ nops' = nops + 1
    /\ \E c \in CoreCalls :
        /\ Enter(t, c)
        /\ Goto(t, c.fn)
        /\ overlapped' = (overlapped \/ (c.fn = "Alter" /\ \E u \in Tasks \ {t} :
                                            pc[u] # "idle" /\ call[u].fn = "Alter"))
    /\ UNCHANGED <<byID, byName, shielded, properties, name, id, lock, found,
                   faults, deleted, base, hist, rev, errvals,
                   listing, scanner, clean, prov, net>>

CoreStep(t) ==
    \/ CoreReload(t) \/ CoreDone(t)
    \/ CoreAlterLock(t) \/ CoreAlterReload(t) \/ CoreAlterCallback(t)
    \/ CoreCarryCheck(t) \/ CoreCarryLock(t)
    \/ CoreReadCheck(t) \/ CoreReadLock(t) \/ CoreReadByReference(t)
    \/ CoreWriteName(t) \/ CoreWriteID(t) \/ CoreUnlock(t)
    \/ CoreInspectLock(t) \/ CoreInspectReload(t) \/ CoreInspectCallback(t)
    \/ CoreRUnlock(t)
    \/ CoreDeleteLock(t) \/ CoreDeleteSearch(t) \/ CoreDeleteID(t)
    \/ CoreDeleteName(t)

Next == \E t \in Tasks : StartCall(t) \/ CoreStep(t)

Spec == Init /\ [][Next]_vars

(***************************************************************************)
(* One task uses an object that carries a network, with callbacks that     *)
(* change the name and the id of the payload.                              *)
(***************************************************************************)
MaxIdentityOps == 3

IdentityCalls ==
    {[fn |-> "Alter", cb |-> cb, payload |-> <<>>] :
        cb \in {Callback("Rename", "n2", ""), Callback("SetID", "", "net-2"),
                Callback("SetState", "READY", "")}}
    \cup {[fn |-> f, cb |-> Callback("Read", "", ""), payload |-> <<>>] :
            f \in {"Inspect", "Reload", "Delete"}}

StartIdentityCall(t) ==
    /\ pc[t] = "idle"
    /\ nops < MaxIdentityOps
    /\ nops' = nops + 1
    /\ \E c \in IdentityCalls :
        /\ Enter(t, c)
        /\ Goto(t, c.fn)
    /\ UNCHANGED <<byID, byName, shielded, properties, name, id, lock, found,
                   faults, deleted, base, hist, rev, errvals,
                   listing, scanner, clean, overlapped, prov, net>>

InitIdentity == Init /\ shielded # <<>>

NextIdentity ==
    \/ StartIdentityCall("t1")
    \/ CoreReload("t1") \/ CoreDone("t1")
    \/ CoreAlterLock("t1") \/ CoreAlterReload("t1") \/ CoreAlterCallback("t1")
    \/ CoreWriteName("t1") \/ CoreWriteID("t1") \/ CoreUnlock("t1")
    \/ CoreInspectLock("t1") \/ CoreInspectReload("t1")
    \/ CoreInspectCallback("t1") \/ CoreRUnlock("t1")
    \/ CoreDeleteLock("t1") \/ CoreDeleteSearch("t1") \/ CoreDeleteID("t1")
    \/ CoreDeleteName("t1")

SpecIdentity == InitIdentity /\ [][NextIdentity]_vars

(***************************************************************************)
(* Network.Create.  The method is a sequence of steps; each step that made *)
(* something registers a deferred function, and the deferred functions run *)
(* in reverse order when the method returns (they act only when the method *)
(* returns an error and req.KeepOnFailure is false).                       *)
(***************************************************************************)
coreVars == <<byID, byName, shielded, properties, name, id, lock>>
ghostVars == <<deleted, base, hist, clean, overlapped, rev, errvals, listing,
               scanner>>

\* CIDRs a request may carry; utils.IsCIDRRoutable is false for the private
\* ranges (RFC1918, ULA, link-local)
NonRoutableCIDRs == {"192.168.0.0/24", "fd00::/8", "169.254.0.0/16"}
IsCIDRRoutable(cidr) == cidr \notin NonRoutableCIDRs

Requests ==
    {[name |-> "n1", cidr |-> c, ha |-> ha, keep |-> keep, gwname |-> g] :
        c \in {"", "192.168.0.0/24", "8.8.8.0/24"}, ha \in BOOLEAN,
        keep \in BOOLEAN, g \in {"", "mygw"}}

\* a LoadNetwork that looks the reference up among the ids only
LoadNetworkByID(ref) == ref \in DOMAIN byID

\* LoadNetwork(ref): a fresh object reads the metadata by id, then by name
LoadNetwork(ref) == ref \in DOMAIN byID \/ ref \in DOMAIN byName

\* pre-checks that leave the CIDR alone
PreChecksWithoutCIDR(req, answered) ==
    IF ~answered THEN "ProviderError"
    ELSE IF prov.network THEN "DuplicateNotManaged"
    ELSE ""

\* the pre-checks after LoadNetwork: svc.GetNetworkByName must report
\* NotFound, then a CIDR that is given must not be routable
PreChecks(req, answered) ==
    IF ~answered THEN "ProviderError"
    ELSE IF prov.network THEN "DuplicateNotManaged"
    ELSE IF req.cidr # "" /\ IsCIDRRoutable(req.cidr) THEN "InvalidRequest"
    ELSE ""

\* the method calls a method of Core and resumes at cont when it returns
CallCore(t, c, cont) ==
    /\ pc' = [pc EXCEPT ![t] = c.fn]
    /\ stack' = [stack EXCEPT ![t] = <<cont>> \o @]
    /\ Enter(t, c)

AlterCall(cb) == [fn |-> "Alter", cb |-> cb, payload |-> <<>>]

\* a provider or task call that may fail while the fault budget lasts
MayFail(ok) == ok \/ faults < MaxFaults
Spend(ok) == IF ok THEN faults ELSE faults + 1

\* number of provider and task calls that may fail in one Create: the call
\* that makes Create fail and calls of the compensations after it
MaxProviderFaults == 3

ProviderMayFail(ok) == ok \/ net.pfaults < MaxProviderFaults
Failed(ok) == IF ok THEN net.pfaults ELSE net.pfaults + 1

\* failover as the request asks for it, whatever the provider can do
FailoverAsRequested(ha, caps) == ha

\* HA is honoured when the provider has private virtual IPs
Failover(ha, caps) == ha /\ caps

\* the method is called on an object that carries nothing
NetCreateStart(t) ==
    /\ pc[t] = "idle" /\ net.op = "" /\ shielded = <<>>
    /\ \E req \in Requests :
        net' = [NoNet EXCEPT !.op = "Create", !.req = req,
                             !.pre = <<[byID |-> byID, byName |-> byName,
                                        props |-> properties, prov |-> prov]>>]
    /\ Goto(t, "CreateCheck")
    /\ UNCHANGED <<coreVars, ghostVars, call, res, obs, found, faults, nops, prov>>

\* Task.Abort, called by whoever holds the task while Create runs (before the
\* first step of Create or between two steps): the status becomes ABORTED.
\* Create never reads the status, so nothing else changes
TaskAbort ==
    /\ net.op = "Create" /\ ~net.done /\ ~net.aborted
    /\ net' = [net EXCEPT !.aborted = TRUE]
    /\ UNCHANGED <<coreVars, ghostVars, pc, stack, call, res, obs, found, faults,
                   nops, prov>>

\* the pre-checks: LoadNetwork, svc.GetNetworkByName, utils.IsCIDRRoutable
NetCreateCheck(t) ==
    /\ pc[t] = "CreateCheck"
    /\ IF IsNull
       THEN /\ net' = [net EXCEPT !.xerr = "InvalidInstance"]
       ELSE IF LoadNetwork(net.req.name)
       THEN /\ net' = [net EXCEPT !.xerr = "Duplicate"]
       ELSE \E ok \in BOOLEAN :
            /\ ProviderMayFail(ok)
            /\ net' = [net EXCEPT
                 !.plog = Append(@, "GetNetworkByName"),
                 !.pfaults = Failed(ok),
                 !.xerr = PreChecks(net.req, ok)]
    /\ Goto(t, IF net'.xerr = "" THEN "CreateNetwork" ELSE "CreateExit")
    /\ UNCHANGED <<coreVars, ghostVars, call, res, obs, found, faults, nops, prov>>

\* svc.CreateNetwork, then the deferred svc.DeleteNetwork is registered
NetCreateNetwork(t) ==
    /\ pc[t] = "CreateNetwork"
    /\ \E ok \in BOOLEAN :
        /\ ProviderMayFail(ok)
        /\ prov' = [prov EXCEPT !.network = @ \/ ok]
        /\ net' = [net EXCEPT
             !.plog = Append(@, "CreateNetwork"),
             !.pfaults = Failed(ok),
             !.xerr = IF ok THEN "" ELSE "ProviderError",
             !.an = IF ok THEN <<NewNetwork("net-1", net.req.name)>> ELSE <<>>,
             !.failover = ok /\ Failover(net.req.ha, prov.caps),
             !.defers = IF ok THEN Append(@, "DeleteNetwork") ELSE @,
             !.registered = IF ok THEN Append(@, "DeleteNetwork") ELSE @]
        /\ Goto(t, IF ~ok THEN "CreateExit"
                   ELSE IF Failover(net.req.ha, prov.caps) THEN "CreateVIP"
                   ELSE "CreateCarry")
    /\ UNCHANGED <<coreVars, ghostVars, call, res, obs, found, faults, nops>>

\* svc.CreateVIP when failover, then the deferred svc.DeleteVIP is registered
NetCreateVIP(t) ==
    /\ pc[t] = "CreateVIP"
    /\ \E ok \in BOOLEAN :
        /\ ProviderMayFail(ok)
        /\ prov' = [prov EXCEPT !.vip = @ \/ ok]
        /\ net' = [net EXCEPT
             !.plog = Append(@, "CreateVIP"),
             !.pfaults = Failed(ok),
             !.xerr = IF ok THEN "" ELSE "ProviderError",
             !.an = IF ok THEN <<[net.an[1] EXCEPT !.VIP = "vip-1"]>> ELSE @,
             !.defers = IF ok THEN Append(@, "DeleteVIP") ELSE @,
             !.registered = IF ok THEN Append(@, "DeleteVIP") ELSE @]
        /\ Goto(t, IF ok THEN "CreateCarry" ELSE "CreateExit")
    /\ UNCHANGED <<coreVars, ghostVars, call, res, obs, found, faults, nops>>

\* objn.Carry(task, an)
NetCreateCarry(t) ==
    /\ pc[t] = "CreateCarry"
    /\ CallCore(t, [fn |-> "Carry", cb |-> NoCallback, payload |-> net.an],
                "CreateCarried")
    /\ UNCHANGED <<coreVars, ghostVars, found, faults, nops, prov, net>>

\* Carry returned: the deferred core.Delete is registered, then
\* Alter(NetworkState = GATEWAY_CREATION)
NetCreateCarried(t) ==
    /\ pc[t] = "CreateCarried"
    /\ IF res[t] # "ok"
       THEN /\ net' = [net EXCEPT !.xerr = res[t]]
            /\ Goto(t, "CreateExit")
            /\ UNCHANGED <<call, res, obs>>
       ELSE /\ net' = [net EXCEPT !.defers = Append(@, "DeleteMetadata"),
                                  !.registered = Append(@, "DeleteMetadata")]
            /\ CallCore(t, AlterCall(Callback("SetState", NetworkStates[2], "")),
                        "CreatePrepare")
    /\ UNCHANGED <<coreVars, ghostVars, found, faults, nops, prov>>

\* a primary gateway that bears the name asked for whenever there is one
PrimaryGatewayNameAsAsked(failover, gwname, networkName) ==
    IF gwname = "" THEN <<"gw-", networkName>> ELSE <<gwname>>

\* names of the gateways: "gw-<network>" unless a name was asked for and
\* there is no failover; "gw2-<network>" for the secondary
PrimaryGatewayName(failover, gwname, networkName) ==
    IF failover \/ gwname = "" THEN <<"gw-", networkName>> ELSE <<gwname>>

SecondaryGatewayName(failover, networkName) ==
    IF failover THEN <<<<"gw2-", networkName>>>> ELSE <<>>

\* the Alter returned; SelectTemplatesBySize, SearchImage, the names of the
\* gateways, CreateKeyPair
NetCreatePrepare(t) ==
    /\ pc[t] = "CreatePrepare"
    /\ IF res[t] # "ok"
       THEN /\ net' = [net EXCEPT !.xerr = res[t]]
            /\ Goto(t, "CreateExit")
            /\ UNCHANGED prov
       ELSE \E o \in {"", "NoTemplate", "ImageError", "KeyPairError"} :
            /\ ProviderMayFail(o = "")
            /\ prov' = [prov EXCEPT !.keypair = @ \/ o = ""]
            /\ net' = [net EXCEPT
                 !.xerr = o,
                 !.pfaults = Failed(o = ""),
                 !.plog = IF o \in {"", "KeyPairError"}
                          THEN Append(@, "CreateKeyPair") ELSE @,
                 !.gw = [primary |-> <<PrimaryGatewayName(net.failover,
                                           net.req.gwname, SafeGetName)>>,
                         secondary |-> SecondaryGatewayName(net.failover,
                                                            SafeGetName)]]
            /\ Goto(t, IF o = "" THEN "CreateStartPrimary" ELSE "CreateExit")
    /\ UNCHANGED <<coreVars, ghostVars, call, res, obs, found, faults, nops>>

\* task.StartInSubtask(objn.taskCreateGateway, ...) for one gateway
StartInSubtask(w, ok) ==
    [net EXCEPT !.task[w] = IF ok THEN "running" ELSE @,
                !.pfaults = Failed(ok),
                !.xerr = IF ok THEN "" ELSE "TaskError"]

NetCreateStartPrimary(t) ==
    /\ pc[t] = "CreateStartPrimary"
    /\ \E ok \in BOOLEAN :
        /\ ProviderMayFail(ok)
        /\ net' = StartInSubtask("primary", ok)
        /\ Goto(t, IF ~ok THEN "CreateExit"
                   ELSE IF net.failover THEN "CreateStartSecondary"
                   ELSE "CreateWaitPrimary")
    /\ UNCHANGED <<coreVars, ghostVars, call, res, obs, found, faults, nops, prov>>

\* when it fails the method returns at once: the primary subtask goes on
NetCreateStartSecondary(t) ==
    /\ pc[t] = "CreateStartSecondary"
    /\ \E ok \in BOOLEAN :
        /\ ProviderMayFail(ok)
        /\ net' = StartInSubtask("secondary", ok)
        /\ Goto(t, IF ok THEN "CreateWaitPrimary" ELSE "CreateExit")
    /\ UNCHANGED <<coreVars, ghostVars, call, res, obs, found, faults, nops, prov>>

\* the subtask taskCreateGateway: it creates the host and its metadata, or
\* fails and leaves nothing
TaskCreateGateway(w) ==
    /\ net.task[w] = "running"
    /\ \E ok \in BOOLEAN :
        /\ ProviderMayFail(ok)
        /\ prov' = IF ok
                   THEN [prov EXCEPT !.hosts = @ \cup {net.gw[w][1]},
                                     !.hostmeta = @ \cup {net.gw[w][1]},
                                     !.bound = IF net.failover
                                               THEN @ \cup {net.gw[w][1]} ELSE @]
                   ELSE prov
        /\ net' = [net EXCEPT !.task[w] = IF ok THEN "ok" ELSE "failed",
                              !.pfaults = Failed(ok),
                              !.plog = Append(@, "CreateHost")]
    /\ UNCHANGED <<coreVars, ghostVars, pc, stack, call, res, obs, found, faults, nops>>

\* primaryTask.Wait(); on success the deferred deletion of the gateway is
\* registered
NetCreateWaitPrimary(t) ==
    /\ pc[t] = "CreateWaitPrimary"
    /\ net.task.primary \in {"ok", "failed"}
    /\ net' = [net EXCEPT
         !.defers = IF net.task.primary = "ok"
                    THEN Append(@, "DeletePrimaryGateway") ELSE @,
         !.registered = IF net.task.primary = "ok"
                        THEN Append(@, "DeletePrimaryGateway") ELSE @]
    /\ Goto(t, IF net.failover /\ net.task.secondary # "none"
               THEN "CreateWaitSecondary" ELSE "CreateGateways")
    /\ UNCHANGED <<coreVars, ghostVars, call, res, obs, found, faults, nops, prov>>

\* a Create that goes on without the Wait of the secondary gateway
NetCreateSkipWaitSecondary(t) ==
    /\ pc[t] = "CreateWaitSecondary"
    /\ Goto(t, "CreateGateways")
    /\ UNCHANGED <<coreVars, ghostVars, call, res, obs, found, faults, nops, prov, net>>

\* secondaryTask.Wait(), the same
NetCreateWaitSecondary(t) ==
    /\ pc[t] = "CreateWaitSecondary"
    /\ net.task.secondary \in {"ok", "failed"}
    /\ net' = [net EXCEPT
         !.defers = IF net.task.secondary = "ok"
                    THEN Append(@, "DeleteSecondaryGateway") ELSE @,
         !.registered = IF net.task.secondary = "ok"
                        THEN Append(@, "DeleteSecondaryGateway") ELSE @]
    /\ Goto(t, "CreateGateways")
    /\ UNCHANGED <<coreVars, ghostVars, call, res, obs, found, faults, nops, prov>>

\* a Create that looks at the error of the secondary gateway first
NetCreateGatewaysSecondaryFirst(t) ==
    /\ pc[t] = "CreateGateways"
    /\ IF net.task.secondary = "failed"
       THEN /\ net' = [net EXCEPT !.xerr = "SecondaryGatewayError"]
            /\ Goto(t, "CreateExit")
            /\ UNCHANGED <<call, res, obs>>
       ELSE IF net.task.primary = "failed"
       THEN /\ net' = [net EXCEPT !.xerr = "PrimaryGatewayError"]
            /\ Goto(t, "CreateExit")
            /\ UNCHANGED <<call, res, obs>>
       ELSE /\ CallCore(t, AlterCall(Callback("Userdata", "", "")),
                        "CreateConfigure")
            /\ UNCHANGED net
    /\ UNCHANGED <<coreVars, ghostVars, found, faults, nops, prov>>

\* the error of the primary comes before the error of the secondary; with
\* both gateways there, Alter with the callback that fills the userdata
NetCreateGateways(t) ==
    /\ pc[t] = "CreateGateways"
    /\ IF net.task.primary = "failed"
       THEN /\ net' = [net EXCEPT !.xerr = "PrimaryGatewayError"]
            /\ Goto(t, "CreateExit")
            /\ UNCHANGED <<call, res, obs>>
       ELSE IF net.task.secondary = "failed"
       THEN /\ net' = [net EXCEPT !.xerr = "SecondaryGatewayError"]
            /\ Goto(t, "CreateExit")
            /\ UNCHANGED <<call, res, obs>>
       ELSE /\ CallCore(t, AlterCall(Callback("Userdata", "", "")),
                        "CreateConfigure")
            /\ UNCHANGED net
    /\ UNCHANGED <<coreVars, ghostVars, found, faults, nops, prov>>

\* Alter(NetworkState = GATEWAY_CONFIGURATION)
NetCreateConfigure(t) ==
    /\ pc[t] = "CreateConfigure"
    /\ IF res[t] # "ok"
       THEN /\ net' = [net EXCEPT !.xerr = res[t]]
            /\ Goto(t, "CreateExit")
            /\ UNCHANGED <<call, res, obs>>
       ELSE /\ CallCore(t, AlterCall(Callback("SetState", NetworkStates[3], "")),
                        "CreateFinalize")
            /\ UNCHANGED net
    /\ UNCHANGED <<coreVars, ghostVars, found, faults, nops, prov>>

\* the subtasks taskFinalizeGatewayConfiguration of a Create that ended with
\* o: all are started before the first Wait, the Wait of the primary comes
\* first and its error is returned without the Wait of the secondary
FinalizeGateways(failover, o) ==
    [primary |-> IF o = "PrimaryFinalizeError" THEN "failed" ELSE "ok",
     secondary |-> IF ~failover THEN "none"
                   ELSE IF o = "PrimaryFinalizeError" THEN "running"
                   ELSE IF o = "SecondaryFinalizeError" THEN "failed"
                   ELSE "ok"]

\* the tasks taskFinalizeGatewayConfiguration are started and waited for,
\* then Alter(NetworkState = READY)
NetCreateFinalize(t) ==
    /\ pc[t] = "CreateFinalize"
    /\ IF res[t] # "ok"
       THEN /\ net' = [net EXCEPT !.xerr = res[t]]
            /\ Goto(t, "CreateExit")
            /\ UNCHANGED <<call, res, obs>>
       ELSE \E o \in {"", "PrimaryFinalizeError"}
                     \cup (IF net.failover THEN {"SecondaryFinalizeError"} ELSE {}) :
            /\ ProviderMayFail(o = "")
            /\ net' = [net EXCEPT !.xerr = o, !.pfaults = Failed(o = ""),
                                  !.final = FinalizeGateways(net.failover, o)]
            /\ IF o = ""
               THEN CallCore(t, AlterCall(Callback("SetState", NetworkStates[4], "")),
                             "CreateLast")
               ELSE Goto(t, "CreateExit") /\ UNCHANGED <<call, res, obs>>
    /\ UNCHANGED <<coreVars, ghostVars, found, faults, nops, prov>>

\* return objn.Alter(...)
NetCreateLast(t) ==
    /\ pc[t] = "CreateLast"
    /\ net' = [net EXCEPT !.xerr = IF res[t] = "ok" THEN "" ELSE res[t]]
    /\ Goto(t, "CreateExit")
    /\ UNCHANGED <<coreVars, ghostVars, call, res, obs, found, faults, nops, prov>>

\* a return whose deferred functions do not look at req.KeepOnFailure
NetCreateExitAlways(t) ==
    /\ pc[t] = "CreateExit"
    /\ IF net.defers = <<>>
       THEN Goto(t, "CreateReturn") /\ UNCHANGED net
       ELSE /\ net' = [net EXCEPT !.defers = SubSeq(@, 1, Len(@) - 1)]
            /\ Goto(t, IF net.xerr = "" THEN "CreateExit"
                       ELSE net.defers[Len(net.defers)])
    /\ UNCHANGED <<coreVars, ghostVars, call, res, obs, found, faults, nops, prov>>

\* the method returns: the deferred functions run, the last registered first;
\* each acts only when xerr is not nil and req.KeepOnFailure is false
NetCreateExit(t) ==
    /\ pc[t] = "CreateExit"
    /\ IF net.defers = <<>>
       THEN Goto(t, "CreateReturn") /\ UNCHANGED net
       ELSE /\ net' = [net EXCEPT !.defers = SubSeq(@, 1, Len(@) - 1)]
            /\ Goto(t, IF net.xerr = "" \/ net.req.keep THEN "CreateExit"
                       ELSE net.defers[Len(net.defers)])
    /\ UNCHANGED <<coreVars, ghostVars, call, res, obs, found, faults, nops, prov>>

\* an AddConsequence that appends whatever it is given
AddConsequenceAlways(e, err) == [e EXCEPT !.consequences = Append(@, err)]

\* errCore.AddConsequence: an error that is not nil is appended to the
\* consequences; message and cause stay
AddConsequence(e, err) ==
    IF err # "" THEN [e EXCEPT !.consequences = Append(@, err)] ELSE e

\* the error Create is returning, as the deferred functions see it
OutgoingError == [message |-> net.xerr, consequences |-> net.conseq]

\* a deferred function has acted; errs are the errors of the calls it made
\* (one, or two for a gateway), each handed to xerr.AddConsequence in turn
Compensated(what, errs) ==
    LET e1 == AddConsequence(OutgoingError, errs[1])
        e == IF Len(errs) = 1 THEN e1 ELSE AddConsequence(e1, errs[2])
    IN  [net EXCEPT !.ran = Append(@, what),
                    !.outcomes = @ \o errs,
                    !.pfaults = @ + Len(SelectSeq(errs, LAMBDA x : x # "")),
                    !.xerr = e.message,
                    !.conseq = e.consequences]

\* deferred: svc.DeleteNetwork(an.ID)
CompensateNetwork(t) ==
    /\ pc[t] = "DeleteNetwork"
    /\ \E ok \in BOOLEAN :
        /\ ProviderMayFail(ok)
        /\ prov' = [prov EXCEPT !.network = @ /\ ~ok]
        /\ net' = [Compensated("DeleteNetwork", <<IF ok THEN "" ELSE "ProviderError">>)
                       EXCEPT !.plog = Append(@, "DeleteNetwork")]
    /\ Goto(t, "CreateExit")
    /\ UNCHANGED <<coreVars, ghostVars, call, res, obs, found, faults, nops>>

\* deferred: svc.DeleteVIP(an.VIP)
CompensateVIP(t) ==
    /\ pc[t] = "DeleteVIP"
    /\ \E ok \in BOOLEAN :
        /\ ProviderMayFail(ok)
        /\ prov' = [prov EXCEPT !.vip = @ /\ ~ok]
        /\ net' = [Compensated("DeleteVIP", <<IF ok THEN "" ELSE "ProviderError">>)
                       EXCEPT !.plog = Append(@, "DeleteVIP")]
    /\ Goto(t, "CreateExit")
    /\ UNCHANGED <<coreVars, ghostVars, call, res, obs, found, faults, nops>>

\* deferred: objn.core.Delete(task)
CompensateMetadata(t) ==
    /\ pc[t] = "DeleteMetadata"
    /\ CallCore(t, [fn |-> "Delete", cb |-> NoCallback, payload |-> <<>>],
                "MetadataDeleted")
    /\ UNCHANGED <<coreVars, ghostVars, found, faults, nops, prov, net>>

CompensatedMetadata(t) ==
    /\ pc[t] = "MetadataDeleted"
    /\ net' = [Compensated("DeleteMetadata", <<IF res[t] = "ok" THEN "" ELSE res[t]>>)
                   EXCEPT !.pfaults = net.pfaults]
    /\ Goto(t, "CreateExit")
    /\ UNCHANGED <<coreVars, ghostVars, call, res, obs, found, faults, nops, prov>>

\* what svc.DeleteHost and the Delete of the metadata of a host may answer:
\* NotFound when the provider (the folder) does not hold the host
HostOutcomes(gw) ==
    IF gw \in prov.hosts THEN {"", "HostTimeout", "HostError"} ELSE {"NotFound"}
MetadataOutcomes(gw) ==
    IF gw \in prov.hostmeta THEN {"", "MetadataError"} ELSE {"NotFound"}

\* fail.NewErrorList / ErrListError: nil for an empty list, else one error
\* that holds the list; it is named after the failure it holds when there is
\* one, ErrList when there are two
ErrListError(errors) ==
    IF Len(errors) = 0 THEN ""
    ELSE IF Len(errors) = 1 THEN errors[1] ELSE "ErrList"

\* what deleteGateway adds to its list for one answer: nothing for nil and
\* for NotFound
Collected(o) == IF o \in {"", "NotFound"} THEN <<>> ELSE <<o>>

\* a deleteGateway that returns at the first failure
DeleteGatewayUntilFailure(gw, oh, om) ==
    [prov |-> [prov EXCEPT
                 !.hosts = IF oh = "" THEN @ \ {gw} ELSE @,
                 !.hostmeta = IF om = "" /\ Collected(oh) = <<>> THEN @ \ {gw} ELSE @],
     errors |-> IF Collected(oh) # <<>> THEN Collected(oh) ELSE Collected(om),
     err |-> ErrListError(IF Collected(oh) # <<>> THEN Collected(oh)
                          ELSE Collected(om))]

\* network.deleteGateway: svc.DeleteHost answers oh, then the Delete of the
\* metadata of the host answers om; NotFound counts as success at both, the
\* other errors are collected and returned as one list error
DeleteGateway(gw, oh, om) ==
    [prov |-> [prov EXCEPT
                 !.hosts = IF oh = "" THEN @ \ {gw} ELSE @,
                 !.hostmeta = IF om = "" THEN @ \ {gw} ELSE @],
     errors |-> Collected(oh) \o Collected(om),
     err |-> ErrListError(Collected(oh) \o Collected(om))]

\* the call of deleteGateway as the properties see it
GatewayCall(gw, oh, om) ==
    [gw |-> gw, host |-> oh, metadata |-> om,
     errors |-> DeleteGateway(gw, oh, om).errors,
     err |-> DeleteGateway(gw, oh, om).err]

\* network.unbindHostFromVIP: svc.UnbindHostFromVIP(vip, hostID)
UnbindHostFromVIP(p, gw, o) ==
    [prov |-> [p EXCEPT !.bound = IF o = "UnbindError" THEN @ ELSE @ \ {gw}],
     err |-> IF o = "UnbindError" THEN o ELSE ""]

\* the errors a deferred deletion of a gateway hands to AddConsequence: that
\* of deleteGateway, then that of unbindHostFromVIP when it is called
GatewayErrors(unbind, od, ou) == IF unbind THEN <<od, ou>> ELSE <<od>>

\* deferred: deleteGateway of a gateway, then unbindHostFromVIP (for the
\* primary when failover, for the secondary always); both errors are added
CompensateGateway(t) ==
    /\ pc[t] \in {"DeletePrimaryGateway", "DeleteSecondaryGateway"}
    /\ LET w == IF pc[t] = "DeletePrimaryGateway" THEN "primary" ELSE "secondary"
           gw == net.gw[w][1]
           unbind == w = "secondary" \/ net.failover
       IN  \E oh \in HostOutcomes(gw), om \in MetadataOutcomes(gw),
              ou \in {""} \cup (IF unbind THEN {"UnbindError"} ELSE {}) :
            LET dg == DeleteGateway(gw, oh, om)
                errs == GatewayErrors(unbind, dg.err,
                                      UnbindHostFromVIP(prov, gw, ou).err)
                failures == Len(dg.errors) + (IF ou = "" THEN 0 ELSE 1)
            IN  /\ net.pfaults + failures <= MaxProviderFaults
                /\ prov' = IF unbind
                           THEN UnbindHostFromVIP(dg.prov, gw, ou).prov
                           ELSE dg.prov
                /\ net' = [Compensated(pc[t], errs) EXCEPT
                             !.pfaults = net.pfaults + failures,
                             !.dgw = Append(@, GatewayCall(gw, oh, om)),
                             !.plog = @ \o <<"DeleteHost">>
                                        \o (IF unbind THEN <<"UnbindHostFromVIP">>
                                            ELSE <<>>)]
    /\ Goto(t, "CreateExit")
    /\ UNCHANGED <<coreVars, ghostVars, call, res, obs, found, faults, nops>>

\* the caller has the result
NetCreateReturn(t) ==
    /\ pc[t] = "CreateReturn"
    /\ net' = [net EXCEPT !.done = TRUE]
    /\ Return(t)
    /\ UNCHANGED <<coreVars, ghostVars, faults, nops, prov>>

(***************************************************************************)
(* Network.GetDefaultRouteIP, asked of the network a Create has made.      *)
(***************************************************************************)
\* the private IP of a host or of a VIP, named after what bears it
PrivateIPOf(ref) == <<"private-ip-of", ref>>

\* LoadHost(task, svc, ref): the host whose metadata exist under ref
LoadHost(ref) ==
    IF ref = "" THEN [err |-> "InvalidParameter", host |-> <<>>]
    ELSE IF ref \in prov.hostmeta THEN [err |-> "", host |-> <<ref>>]
    ELSE [err |-> "NotFound", host |-> <<>>]

\* the public IP of a host or of a VIP, and the empty string of an IP
PublicIPOf(ref) == <<"public-ip-of", ref>>
NoIP == <<>>

\* abstract.VirtualIP as a payload holds it, named after the fields that are
\* set: vip-1 has PrivateIP and PublicIP, vip-private and vip-public have
\* one of them, vip-noip has none
VirtualIPs == {"vip-1", "vip-private", "vip-public", "vip-noip"}
VIPPrivateIP(v) == IF v \in {"vip-1", "vip-private"} THEN PrivateIPOf(v) ELSE NoIP
VIPPublicIP(v) == IF v \in {"vip-1", "vip-public"} THEN PublicIPOf(v) ELSE NoIP

\* a callback that takes the VIP whenever the payload has one
DefaultRouteIPOfAnyVIP(an) ==
    IF an.VIP # "" THEN [ip |-> VIPPrivateIP(an.VIP), err |-> ""]
    ELSE IF LoadHost(an.GatewayID).err # ""
    THEN [ip |-> NoIP, err |-> LoadHost(an.GatewayID).err]
    ELSE [ip |-> PrivateIPOf(LoadHost(an.GatewayID).host[1]), err |-> ""]

\* the callback of GetDefaultRouteIP: the private IP of the VIP when the
\* payload has a VIP that has one, else that of the host loaded from
\* an.GatewayID
DefaultRouteIP(an) ==
    IF an.VIP # "" /\ VIPPrivateIP(an.VIP) # NoIP
    THEN [ip |-> VIPPrivateIP(an.VIP), err |-> ""]
    ELSE IF LoadHost(an.GatewayID).err # ""
    THEN [ip |-> NoIP, err |-> LoadHost(an.GatewayID).err]
    ELSE [ip |-> PrivateIPOf(LoadHost(an.GatewayID).host[1]), err |-> ""]

\* the callback of GetEndpointIP: the public IP of the VIP when the payload
\* has a VIP that has one, else that of the host loaded from an.GatewayID
EndpointIP(an) ==
    IF an.VIP # "" /\ VIPPublicIP(an.VIP) # NoIP
    THEN [ip |-> VIPPublicIP(an.VIP), err |-> ""]
    ELSE IF LoadHost(an.GatewayID).err # ""
    THEN [ip |-> NoIP, err |-> LoadHost(an.GatewayID).err]
    ELSE [ip |-> PublicIPOf(LoadHost(an.GatewayID).host[1]), err |-> ""]

\* GetDefaultRouteIP is objn.Inspect with that callback
NetGetDefaultRouteIP(t) ==
    /\ pc[t] = "idle" /\ net.op = "Create" /\ net.done /\ net.xerr = ""
    /\ net.route = <<>>
    /\ Enter(t, [fn |-> "Inspect", cb |-> Callback("GetDefaultRouteIP", "", ""),
                 payload |-> <<>>])
    /\ Goto(t, "Inspect")
    /\ UNCHANGED <<coreVars, ghostVars, found, faults, nops, prov, net>>

\* the callback runs under shielded.Inspect; ip and xerr are what the method
\* returns
NetDefaultRouteCallback(t) ==
    /\ pc[t] = "InspectCallback" /\ call[t].cb.kind = "GetDefaultRouteIP"
    /\ LET out == IF shielded = <<>> THEN [ip |-> NoIP, err |-> "InvalidInstance"]
                  ELSE DefaultRouteIP(shielded[1])
       IN  /\ net' = [net EXCEPT !.route = <<out>>]
           /\ res' = [res EXCEPT ![t] = IF out.err = "" THEN "ok" ELSE out.err]
    /\ obs' = [obs EXCEPT ![t].cbRan = TRUE]
    /\ Goto(t, "RUnlock")
    /\ UNCHANGED <<coreVars, ghostVars, call, found, faults, nops, prov>>

(***************************************************************************)
(* One Create on a new object, under every request, on a provider that may *)
(* know the name already and on metadata that may hold it already.         *)
(***************************************************************************)
\* a network of the same name that another object of this core created
OtherNetwork == [NewNetwork("net-0", "n1") EXCEPT !.NetworkState = NetworkStates[4]]

InitCreate ==
    /\ \E existing \in {"none", "managed", "foreign"}, caps \in BOOLEAN :
        /\ byID = IF existing = "managed"
                  THEN MapPut(EmptyMap, OtherNetwork.ID, Serialize(OtherNetwork))
                  ELSE EmptyMap
        /\ byName = IF existing = "managed"
                    THEN MapPut(EmptyMap, OtherNetwork.Name, Serialize(OtherNetwork))
                    ELSE EmptyMap
        /\ prov = [NoProv EXCEPT !.network = existing # "none", !.caps = caps]
    /\ shielded = <<>>
    /\ name = ""
    /\ id = ""
    /\ base = <<>>
    /\ clean = FALSE
    /\ rev = <<>>
    /\ OtherPartsAtRest
    /\ properties = NewJSONProperties
    /\ lock = NewTaskedLock
    /\ pc = [t \in Tasks |-> "idle"]
    /\ stack = [t \in Tasks |-> <<>>]
    /\ call = [t \in Tasks |-> NoCall]
    /\ res = [t \in Tasks |-> ""]
    /\ found = [t \in Tasks |-> [id |-> FALSE, name |-> FALSE]]
    /\ faults = 0
    /\ nops = 0
    /\ obs = [t \in Tasks |-> NoObs]
    /\ deleted = FALSE
    /\ hist = <<>>
    /\ overlapped = FALSE
    /\ net = NoNet

CreateStep(t) ==
    \/ NetCreateStart(t) \/ NetCreateCheck(t) \/ NetCreateNetwork(t)
    \/ NetCreateVIP(t) \/ NetCreateCarry(t) \/ NetCreateCarried(t)
    \/ NetCreatePrepare(t) \/ NetCreateStartPrimary(t)
    \/ NetCreateStartSecondary(t) \/ NetCreateWaitPrimary(t)
    \/ NetCreateWaitSecondary(t) \/ NetCreateGateways(t)
    \/ NetCreateConfigure(t) \/ NetCreateFinalize(t) \/ NetCreateLast(t)
    \/ NetCreateExit(t) \/ CompensateNetwork(t) \/ CompensateVIP(t)
    \/ CompensateMetadata(t) \/ CompensatedMetadata(t) \/ CompensateGateway(t)
    \/ NetCreateReturn(t)
    \/ NetGetDefaultRouteIP(t) \/ NetDefaultRouteCallback(t)
    \/ CoreInspectLock(t) \/ CoreInspectReload(t) \/ CoreRUnlock(t)
    \/ CoreCarryCheck(t) \/ CoreCarryLock(t) \/ CoreWriteName(t)
    \/ CoreWriteID(t) \/ CoreUnlock(t)
    \/ CoreAlterLock(t) \/ CoreAlterReload(t) \/ CoreAlterCallback(t)
    \/ CoreDeleteLock(t) \/ CoreDeleteSearch(t) \/ CoreDeleteID(t)
    \/ CoreDeleteName(t)

NextCreate ==
    \/ CreateStep("t1")
    \/ TaskAbort
    \/ \E w \in {"primary", "secondary"} : TaskCreateGateway(w)

SpecCreate == InitCreate /\ [][NextCreate]_vars

(***************************************************************************)
(* Two tasks run Network.Create with the same name, each on a Network      *)
(* object of its own (NewNetwork), sharing the metadata folder and the     *)
(* provider. Create takes no lock before Carry: its steps up to Carry are  *)
(* the two pre-checks and svc.CreateNetwork; the request is in             *)
(* call[t].payload until the network exists, then the network is.          *)
(***************************************************************************)
\* ids the provider gives to the networks it creates, in order
ProviderNetworkIDs == <<"net-1", "net-2">>

\* Create begins: the parameters are valid, the request is kept
TwoCreateStart(t) ==
    /\ pc[t] = "idle" /\ call[t] = NoCall
    /\ \E req \in Requests :
        call' = [call EXCEPT ![t] = [fn |-> "Create", cb |-> NoCallback,
                                     payload |-> <<req>>]]
    /\ Goto(t, "CreateLoadNetwork")
    /\ UNCHANGED <<coreVars, ghostVars, res, obs, found, faults, nops, prov, net>>

\* the first pre-check: LoadNetwork(task, svc, req.Name) must fail
TwoCreateLoadNetwork(t) ==
    /\ pc[t] = "CreateLoadNetwork"
    /\ IF LoadNetwork(call[t].payload[1].name)
       THEN /\ res' = [res EXCEPT ![t] = "Duplicate"]
            /\ Goto(t, "CreateDone")
       ELSE /\ res' = res
            /\ Goto(t, "CreateGetNetworkByName")
    /\ UNCHANGED <<coreVars, ghostVars, call, obs, found, faults, nops, prov, net>>

\* the second pre-check: svc.GetNetworkByName must report NotFound; then the
\* CIDR that is given must not be routable
TwoCreateGetNetworkByName(t) ==
    /\ pc[t] = "CreateGetNetworkByName"
    /\ \E ok \in BOOLEAN :
        /\ MayFail(ok)
        /\ faults' = Spend(ok)
        /\ res' = [res EXCEPT ![t] = PreChecks(call[t].payload[1], ok)]
    /\ Goto(t, IF res'[t] = "" THEN "CreateProviderNetwork" ELSE "CreateDone")
    /\ UNCHANGED <<coreVars, ghostVars, call, obs, found, nops, prov, net>>

\* svc.CreateNetwork: the provider creates a network under a new id; when it
\* holds a network of the name already it creates another or refuses
TwoCreateNetwork(t) ==
    /\ pc[t] = "CreateProviderNetwork"
    /\ \E ok \in BOOLEAN :
        /\ ok \/ prov.network
        /\ IF ok
           THEN LET newID == ProviderNetworkIDs[Cardinality(prov.networks) + 1]
                IN  /\ prov' = [prov EXCEPT !.network = TRUE,
                                            !.networks = @ \cup {newID}]
                    /\ call' = [call EXCEPT ![t].payload =
                            <<NewNetwork(newID, call[t].payload[1].name)>>]
                    /\ res' = res
                    /\ Goto(t, "CreateCarryNetwork")
           ELSE /\ res' = [res EXCEPT ![t] = "ProviderError"]
                /\ Goto(t, "CreateDone")
                /\ UNCHANGED <<prov, call>>
    /\ UNCHANGED <<coreVars, ghostVars, obs, found, faults, nops, net>>

\* objn.Carry(task, an) on the object of the task: it is new, so Carry goes
\* to Core.write, which stores the document by name and by id
TwoCreateCarry(t) ==
    /\ pc[t] = "CreateCarryNetwork"
    /\ LET an == call[t].payload[1]
       IN  /\ byName' = MapPut(byName, an.Name, Serialize(an))
           /\ byID' = MapPut(byID, an.ID, Serialize(an))
    /\ res' = [res EXCEPT ![t] = "ok"]
    /\ Goto(t, "CreateDone")
    /\ UNCHANGED <<shielded, properties, name, id, lock, ghostVars, call, obs,
                   found, faults, nops, prov, net>>

\* the metadata and the provider before the two Creates: nothing of the name,
\* or a network of the name that is managed, or one that is not
InitTwoCreates ==
    /\ \E existing \in {"none", "managed", "foreign"} :
        /\ byID = IF existing = "managed"
                  THEN MapPut(EmptyMap, OtherNetwork.ID, Serialize(OtherNetwork))
                  ELSE EmptyMap
        /\ byName = IF existing = "managed"
                    THEN MapPut(EmptyMap, OtherNetwork.Name, Serialize(OtherNetwork))
                    ELSE EmptyMap
        /\ prov = [NoProv EXCEPT
                     !.network = existing # "none",
                     !.networks = IF existing = "none" THEN {}
                                  ELSE {OtherNetwork.ID}]
    /\ shielded = <<>>
    /\ name = ""
    /\ id = ""
    /\ base = <<>>
    /\ clean = FALSE
    /\ rev = <<>>
    /\ OtherPartsAtRest
    /\ properties = NewJSONProperties
    /\ lock = NewTaskedLock
    /\ pc = [t \in Tasks |-> "idle"]
    /\ stack = [t \in Tasks |-> <<>>]
    /\ call = [t \in Tasks |-> NoCall]
    /\ res = [t \in Tasks |-> ""]
    /\ found = [t \in Tasks |-> [id |-> FALSE, name |-> FALSE]]
    /\ faults = 0
    /\ nops = 0
    /\ obs = [t \in Tasks |-> NoObs]
    /\ deleted = FALSE
    /\ hist = <<>>
    /\ overlapped = FALSE
    /\ net = NoNet

NextTwoCreates ==
    \E t \in Tasks :
        \/ TwoCreateStart(t)
        \/ TwoCreateLoadNetwork(t)
        \/ TwoCreateGetNetworkByName(t)
        \/ TwoCreateNetwork(t)
        \/ TwoCreateCarry(t)

SpecTwoCreates == InitTwoCreates /\ [][NextTwoCreates]_vars

(***************************************************************************)
(* Network.AttachHost, Network.DetachHost and Network.Delete.              *)
(***************************************************************************)
\* number of methods of the network one behaviour calls
MaxNetOps == 4

\* what the method saw when it began
Snapshot ==
    <<[byID |-> byID, byName |-> byName, props |-> properties, prov |-> prov]>>

\* AttachHost(host) is objn.Alter with the callback of AttachHost
NetAttachHost(t) ==
    /\ pc[t] = "idle" /\ nops < MaxNetOps
    /\ nops' = nops + 1
    /\ \E h \in HostIDs :
        /\ Enter(t, AlterCall(Callback("AttachHost", "", h)))
        /\ net' = [NoNet EXCEPT !.op = "AttachHost"]
    /\ Goto(t, "Alter")
    /\ UNCHANGED <<coreVars, ghostVars, found, faults, prov>>

\* DetachHost(hostID) is objn.Alter with the callback of DetachHost
NetDetachHost(t) ==
    /\ pc[t] = "idle" /\ nops < MaxNetOps
    /\ nops' = nops + 1
    /\ \E h \in HostIDs :
        /\ Enter(t, AlterCall(Callback("DetachHost", "", h)))
        /\ net' = [NoNet EXCEPT !.op = "DetachHost"]
    /\ Goto(t, "Alter")
    /\ UNCHANGED <<coreVars, ghostVars, found, faults, prov>>

\* Delete: SafeLock, then objn.Alter with the callback that empties the
\* provider of what belongs to the network
NetDeleteStart(t) ==
    /\ pc[t] = "idle" /\ nops < MaxNetOps
    /\ nops' = nops + 1
    /\ CanLock(t)
    /\ lock' = SafeLock(t)
    /\ \E aborted \in BOOLEAN :
        net' = [NoNet EXCEPT !.op = "Delete", !.pre = Snapshot,
                             !.aborted = aborted]
    /\ CallCore(t, AlterCall(Callback("NetDelete", "", "")), "NetDeleteAltered")
    /\ UNCHANGED <<byID, byName, shielded, properties, name, id, ghostVars,
                   found, faults, prov>>

\* the test of Delete on hosts.v1: hosts are attached when ByName is not empty
HostsStillAttached(nh) == IF DOMAIN nh.ByName # {} THEN "NotAvailable" ELSE ""

\* a callback of Delete that does not look at the status of the task
NetDeleteCheckHostsOnly(t) ==
    /\ pc[t] = "AlterCallback" /\ call[t].cb.kind = "NetDelete"
    /\ ShieldedFree(t)
    /\ LET err == IF shielded = <<>> THEN "InvalidInstance"
                  ELSE PropsInspect(properties, HostsStillAttached(PropsLookup(properties)))
       IN  /\ res' = [res EXCEPT ![t] = err]
           /\ Goto(t, IF err = "" THEN "NetDeletePrimary" ELSE "Unlock")
    /\ obs' = [obs EXCEPT ![t].cbRan = TRUE]
    /\ UNCHANGED <<coreVars, ghostVars, call, found, faults, nops, prov, net>>

\* the callback of Delete begins: hosts still attached are an error, then the
\* task may have been aborted
NetDeleteCheckHosts(t) ==
    /\ pc[t] = "AlterCallback" /\ call[t].cb.kind = "NetDelete"
    /\ ShieldedFree(t)
    /\ LET innerErr == IF shielded = <<>> THEN "InvalidInstance"
                       ELSE PropsInspect(properties, HostsStillAttached(PropsLookup(properties)))
           err == IF innerErr # "" THEN innerErr
                  ELSE IF net.aborted THEN "Aborted" ELSE ""
       IN  /\ res' = [res EXCEPT ![t] = err]
           /\ Goto(t, IF err = "" THEN "NetDeletePrimary" ELSE "Unlock")
    /\ obs' = [obs EXCEPT ![t].cbRan = TRUE]
    /\ UNCHANGED <<coreVars, ghostVars, call, found, faults, nops, prov, net>>

\* a Delete that goes on to the next step when a gateway cannot be deleted
NetDeleteGatewayLenient(t) ==
    /\ pc[t] \in {"NetDeletePrimary", "NetDeleteSecondary"}
    /\ LET gw == IF pc[t] = "NetDeletePrimary" THEN shielded[1].GatewayID
                 ELSE shielded[1].SecondaryGatewayID
           next == IF pc[t] = "NetDeletePrimary" THEN "NetDeleteSecondary"
                   ELSE "NetDeleteVIP"
       IN  IF gw = "" \/ gw \notin prov.hostmeta
           THEN /\ Goto(t, next)
                /\ UNCHANGED <<res, faults, prov, net>>
           ELSE \/ /\ MayFail(FALSE)
                   /\ faults' = Spend(FALSE)
                   /\ Goto(t, next)
                   /\ net' = [net EXCEPT !.perr =
                                Append(@, [call |-> "deleteGateway",
                                           err |-> "LoadError"])]
                   /\ UNCHANGED <<prov, res>>
                \/ \E oh \in HostOutcomes(gw), om \in MetadataOutcomes(gw) :
                    LET dg == DeleteGateway(gw, oh, om)
                    IN  /\ MayFail(dg.err = "")
                        /\ faults' = Spend(dg.err = "")
                        /\ prov' = dg.prov
                        /\ net' = [net EXCEPT
                             !.plog = Append(@, "DeleteHost"),
                             !.dgw = Append(@, GatewayCall(gw, oh, om)),
                             !.perr = IF dg.err = "" THEN @
                                      ELSE Append(@, [call |-> "deleteGateway",
                                                      err |-> dg.err])]
                        /\ UNCHANGED res
                        /\ Goto(t, next)
    /\ UNCHANGED <<coreVars, ghostVars, call, obs, found, nops>>

\* the gateway of the payload: LoadHost, then deleteGateway; a gateway that
\* is not found is passed over, another error ends the callback
NetDeleteGateway(t) ==
    /\ pc[t] \in {"NetDeletePrimary", "NetDeleteSecondary"}
    /\ LET gw == IF pc[t] = "NetDeletePrimary" THEN shielded[1].GatewayID
                 ELSE shielded[1].SecondaryGatewayID
           next == IF pc[t] = "NetDeletePrimary" THEN "NetDeleteSecondary"
                   ELSE "NetDeleteVIP"
       IN  IF gw = "" \/ gw \notin prov.hostmeta
           THEN /\ Goto(t, next)
                /\ UNCHANGED <<res, faults, prov, net>>
           ELSE \/ /\ MayFail(FALSE)
                   /\ faults' = Spend(FALSE)
                   /\ res' = [res EXCEPT ![t] = "LoadError"]
                   /\ Goto(t, "Unlock")
                   /\ net' = [net EXCEPT !.perr =
                                Append(@, [call |-> "deleteGateway",
                                           err |-> "LoadError"])]
                   /\ UNCHANGED prov
                \/ \E oh \in HostOutcomes(gw), om \in MetadataOutcomes(gw) :
                    LET dg == DeleteGateway(gw, oh, om)
                    IN  /\ MayFail(dg.err = "")
                        /\ faults' = Spend(dg.err = "")
                        /\ prov' = dg.prov
                        /\ net' = [net EXCEPT
                             !.plog = Append(@, "DeleteHost"),
                             !.dgw = Append(@, GatewayCall(gw, oh, om)),
                             !.perr = IF dg.err = "" THEN @
                                      ELSE Append(@, [call |-> "deleteGateway",
                                                      err |-> dg.err])]
                        /\ res' = [res EXCEPT ![t] = dg.err]
                        /\ Goto(t, IF dg.err = "" THEN next ELSE "Unlock")
    /\ UNCHANGED <<coreVars, ghostVars, call, obs, found, nops>>

\* a Delete whose callback returns the error of svc.DeleteVIP
NetDeleteVIPStrict(t) ==
    /\ pc[t] = "NetDeleteVIP"
    /\ IF shielded[1].VIP = ""
       THEN Goto(t, "NetDeleteNetwork") /\ UNCHANGED <<res, faults, prov, net>>
       ELSE \E ok \in BOOLEAN :
            /\ MayFail(ok)
            /\ faults' = Spend(ok)
            /\ prov' = [prov EXCEPT !.vip = @ /\ ~ok]
            /\ net' = [net EXCEPT
                 !.plog = Append(@, "DeleteVIP"),
                 !.perr = IF ok THEN @
                          ELSE Append(@, [call |-> "DeleteVIP", err |-> "ProviderError"])]
            /\ res' = [res EXCEPT ![t] = IF ok THEN @ ELSE "ProviderError"]
            /\ Goto(t, IF ok THEN "NetDeleteNetwork" ELSE "Unlock")
    /\ UNCHANGED <<coreVars, ghostVars, call, obs, found, nops>>

\* svc.DeleteVIP when the payload has a VIP: a failure is logged, no more
NetDeleteVIP(t) ==
    /\ pc[t] = "NetDeleteVIP"
    /\ IF shielded[1].VIP = ""
       THEN UNCHANGED <<faults, prov, net>>
       ELSE \E ok \in BOOLEAN :
            /\ MayFail(ok)
            /\ faults' = Spend(ok)
            /\ prov' = [prov EXCEPT !.vip = @ /\ ~ok]
            /\ net' = [net EXCEPT
                 !.plog = Append(@, "DeleteVIP"),
                 !.perr = IF ok THEN @
                          ELSE Append(@, [call |-> "DeleteVIP", err |-> "ProviderError"])]
    /\ Goto(t, "NetDeleteNetwork")
    /\ UNCHANGED <<coreVars, ghostVars, call, res, obs, found, nops>>

\* svc.DeleteNetwork: NotFound, Timeout (then GetNetwork is polled until the
\* network is gone or the wait is over) and any other error are returned by
\* the callback; the callback leaves the payload as it was
NetDeleteNetwork(t) ==
    /\ pc[t] = "NetDeleteNetwork"
    /\ \E o \in {"", "NotFound", "Timeout", "ProviderError"}, gone \in BOOLEAN :
        /\ (o = "") => prov.network /\ gone
        /\ (o = "NotFound") => ~prov.network /\ ~gone
        /\ (o \in {"Timeout", "ProviderError"}) => prov.network /\ faults < MaxFaults
        /\ (o = "ProviderError") => ~gone
        /\ faults' = IF o \in {"Timeout", "ProviderError"} THEN faults + 1 ELSE faults
        /\ prov' = [prov EXCEPT !.network = @ /\ ~gone]
        /\ net' = [net EXCEPT
             !.plog = Append(@, "DeleteNetwork")
                        \o (IF o = "Timeout" THEN <<"GetNetwork">> ELSE <<>>),
             !.perr = IF o = "" THEN @
                      ELSE Append(@, [call |-> "DeleteNetwork", err |-> o])]
        /\ res' = [res EXCEPT ![t] = o]
        /\ Goto(t, IF o = "" THEN "WriteName" ELSE "Unlock")
    /\ UNCHANGED <<coreVars, ghostVars, call, obs, found, nops>>

\* the Alter returned: its error is returned, else objn.core.Delete(task)
NetDeleteAltered(t) ==
    /\ pc[t] = "NetDeleteAltered"
    /\ IF res[t] # "ok"
       THEN /\ net' = [net EXCEPT !.xerr = res[t]]
            /\ Goto(t, "NetDeleteUnlock")
            /\ UNCHANGED <<call, res, obs>>
       ELSE /\ CallCore(t, [fn |-> "Delete", cb |-> NoCallback, payload |-> <<>>],
                        "NetDeleteDeleted")
            /\ UNCHANGED net
    /\ UNCHANGED <<coreVars, ghostVars, found, faults, nops, prov>>

NetDeleteDeleted(t) ==
    /\ pc[t] = "NetDeleteDeleted"
    /\ net' = [net EXCEPT !.xerr = IF res[t] = "ok" THEN "" ELSE res[t]]
    /\ Goto(t, "NetDeleteUnlock")
    /\ UNCHANGED <<coreVars, ghostVars, call, res, obs, found, faults, nops, prov>>

\* the deferred SafeUnlock of Delete, then the return
NetDeleteUnlock(t) ==
    /\ pc[t] = "NetDeleteUnlock"
    /\ lock' = SafeUnlock(t)
    /\ net' = [net EXCEPT !.done = TRUE]
    /\ Return(t)
    /\ UNCHANGED <<byID, byName, shielded, properties, name, id, ghostVars,
                   faults, nops, prov>>

(***************************************************************************)
(* A network that was created, then used by one task: hosts are attached   *)
(* and detached and the network is deleted.                                *)
(***************************************************************************)
\* the payload of a network that is READY, with or without gateways recorded
\* and with or without a VIP
ReadyNetwork(gateways, vip) ==
    [TheNetwork EXCEPT !.NetworkState = NetworkStates[4],
                       !.GatewayID = IF gateways THEN "gw-1" ELSE "",
                       !.SecondaryGatewayID = IF gateways /\ vip THEN "gw-2" ELSE "",
                       !.VIP = IF vip THEN "vip-1" ELSE ""]

InitNet ==
    /\ \E gateways \in BOOLEAN, vip \in BOOLEAN, used \in BOOLEAN :
        LET an == ReadyNetwork(gateways, vip)
            gws == {"gw-1"} \cup (IF vip THEN {"gw-2"} ELSE {})
        IN  /\ byID = MapPut(EmptyMap, an.ID, Serialize(an))
            /\ byName = MapPut(EmptyMap, an.Name, Serialize(an))
            /\ shielded = <<an>>
            /\ name = an.Name
            /\ id = an.ID
            /\ properties = IF used THEN <<NewNetworkHosts>> ELSE NewJSONProperties
            /\ base = <<[payload |-> an, props |-> properties]>>
            /\ prov = [NoProv EXCEPT !.network = TRUE, !.vip = vip,
                                     !.keypair = TRUE, !.hosts = gws,
                                     !.hostmeta = gws, !.caps = vip]
    /\ clean = TRUE
    /\ rev = <<>>
    /\ OtherPartsAtRest
    /\ lock = NewTaskedLock
    /\ pc = [t \in Tasks |-> "idle"]
    /\ stack = [t \in Tasks |-> <<>>]
    /\ call = [t \in Tasks |-> NoCall]
    /\ res = [t \in Tasks |-> ""]
    /\ found = [t \in Tasks |-> [id |-> FALSE, name |-> FALSE]]
    /\ faults = 0
    /\ nops = 0
    /\ obs = [t \in Tasks |-> NoObs]
    /\ deleted = FALSE
    /\ hist = <<>>
    /\ overlapped = FALSE
    /\ net = NoNet

NetStep(t) ==
    \/ NetAttachHost(t) \/ NetDetachHost(t) \/ NetDeleteStart(t)
    \/ NetDeleteCheckHosts(t) \/ NetDeleteGateway(t) \/ NetDeleteVIP(t)
    \/ NetDeleteNetwork(t) \/ NetDeleteAltered(t) \/ NetDeleteDeleted(t)
    \/ NetDeleteUnlock(t)
    \/ CoreAlterLock(t) \/ CoreAlterReload(t) \/ CoreAlterCallback(t)
    \/ CoreWriteName(t) \/ CoreWriteID(t) \/ CoreUnlock(t)
    \/ CoreDeleteLock(t) \/ CoreDeleteSearch(t) \/ CoreDeleteID(t)
    \/ CoreDeleteName(t)

NextNet == NetStep("t1")

SpecNet == InitNet /\ [][NextNet]_vars

\* the task that runs a method goes on running it: every call it makes to
\* the provider and to the storage is answered, and what it waits for
\* otherwise is the lock
NetRuns == pc["t1"] # "idle" /\ NextNet

SpecNetLive == SpecNet /\ WF_vars(NetRuns)

(***************************************************************************)
(* A network that is READY, asked for its default route and its endpoint.  *)
(***************************************************************************)
MaxIPOps == 2

\* GetEndpointIP and GetDefaultRouteIP on a network that exists: objn.Inspect
\* with the callback of the method
NetGetIP(t) ==
    /\ pc[t] = "idle" /\ nops < MaxIPOps
    /\ nops' = nops + 1
    /\ \E m \in {"GetDefaultRouteIP", "GetEndpointIP"} :
        /\ net' = [NoNet EXCEPT !.op = m]
        /\ Enter(t, [fn |-> "Inspect", cb |-> Callback(m, "", ""),
                     payload |-> <<>>])
    /\ Goto(t, "Inspect")
    /\ UNCHANGED <<coreVars, ghostVars, found, faults, prov>>

\* the callback of GetEndpointIP runs under shielded.Inspect
NetEndpointCallback(t) ==
    /\ pc[t] = "InspectCallback" /\ call[t].cb.kind = "GetEndpointIP"
    /\ LET out == IF shielded = <<>> THEN [ip |-> NoIP, err |-> "InvalidInstance"]
                  ELSE EndpointIP(shielded[1])
       IN  /\ net' = [net EXCEPT !.route = <<out>>]
           /\ res' = [res EXCEPT ![t] = IF out.err = "" THEN "ok" ELSE out.err]
    /\ obs' = [obs EXCEPT ![t].cbRan = TRUE]
    /\ Goto(t, "RUnlock")
    /\ UNCHANGED <<coreVars, ghostVars, call, found, faults, nops, prov>>

\* the network has any VIP or none and names a primary gateway or none; the
\* metadata of the gateway exist or not
InitIP ==
    /\ \E vip \in VirtualIPs \cup {""}, gw \in {"", "gw-1"},
          hostmeta \in SUBSET {"gw-1"} :
        LET an == [TheNetwork EXCEPT !.NetworkState = NetworkStates[4],
                                     !.GatewayID = gw, !.VIP = vip]
        IN  /\ byID = MapPut(EmptyMap, an.ID, Serialize(an))
            /\ byName = MapPut(EmptyMap, an.Name, Serialize(an))
            /\ shielded = <<an>>
            /\ name = an.Name
            /\ id = an.ID
            /\ base = <<[payload |-> an, props |-> NewJSONProperties]>>
            /\ prov = [NoProv EXCEPT !.network = TRUE, !.vip = vip # "",
                                     !.keypair = TRUE, !.hosts = hostmeta,
                                     !.hostmeta = hostmeta, !.caps = vip # ""]
    /\ properties = NewJSONProperties
    /\ clean = TRUE
    /\ rev = <<>>
    /\ OtherPartsAtRest
    /\ lock = NewTaskedLock
    /\ pc = [t \in Tasks |-> "idle"]
    /\ stack = [t \in Tasks |-> <<>>]
    /\ call = [t \in Tasks |-> NoCall]
    /\ res = [t \in Tasks |-> ""]
    /\ found = [t \in Tasks |-> [id |-> FALSE, name |-> FALSE]]
    /\ faults = 0
    /\ nops = 0
    /\ obs = [t \in Tasks |-> NoObs]
    /\ deleted = FALSE
    /\ hist = <<>>
    /\ overlapped = FALSE
    /\ net = NoNet

NextIP ==
    \/ NetGetIP("t1") \/ NetDefaultRouteCallback("t1") \/ NetEndpointCallback("t1")
    \/ CoreInspectLock("t1") \/ CoreInspectReload("t1") \/ CoreRUnlock("t1")

SpecIP == InitIP /\ [][NextIP]_vars

(***************************************************************************)
(* The parts of the program that are no resource run beside a Core that    *)
(* nobody uses.                                                            *)
(***************************************************************************)
resourceVars == <<byID, byName, shielded, properties, name, id, lock, pc, stack,
                  call, res, found, faults, nops, obs, deleted, base, hist,
                  clean, overlapped, rev, prov, net>>

ResourceAtRest ==
    /\ byID = EmptyMap /\ byName = EmptyMap
    /\ shielded = <<>> /\ properties = NewJSONProperties
    /\ name = "" /\ id = ""
    /\ lock = NewTaskedLock
    /\ pc = [t \in Tasks |-> "idle"]
    /\ stack = [t \in Tasks |-> <<>>]
    /\ call = [t \in Tasks |-> NoCall]
    /\ res = [t \in Tasks |-> ""]
    /\ found = [t \in Tasks |-> [id |-> FALSE, name |-> FALSE]]
    /\ faults = 0 /\ nops = 0
    /\ obs = [t \in Tasks |-> NoObs]
    /\ deleted = FALSE /\ base = <<>> /\ hist = <<>>
    /\ clean = FALSE /\ overlapped = FALSE /\ rev = <<>>
    /\ prov = NoProv /\ net = NoNet

(***************************************************************************)
(* Error values: errCore with its Causer, and the errors of other types.   *)
(* An error that may be nil is <<>> or <<e>>.                              *)
(***************************************************************************)
MaxChain == 4
Messages == {"m1", "m2"}

\* an error of another type than errCore (errors.New, fmt.Errorf)
PlainError(message) == [type |-> "error", Message |-> message, Causer |-> <<>>]

\* NewError(message, cause, nil)
NewError(message, cause) ==
    [type |-> "errCore", Message |-> message, Causer |-> cause]

\* Wrap(cause, message)
Wrap(cause, message) ==
    [type |-> "errCore", Message |-> message, Causer |-> cause]

\* the method errCore.Cause: the Causer of the error
ErrCoreCause(e) == e.Causer

\* the function Cause(err): it follows Cause() while the error is an Error
\* and answers the last error that was not nil
RECURSIVE Cause(_)
Cause(err) ==
    IF err = <<>> THEN <<>>
    ELSE IF err[1].type # "errCore" THEN err
    ELSE IF ErrCoreCause(err[1]) = <<>> THEN err
    ELSE Cause(ErrCoreCause(err[1]))

\* number of errors of the chain that err begins
RECURSIVE ChainLen(_)
ChainLen(err) == IF err = <<>> THEN 0 ELSE 1 + ChainLen(err[1].Causer)

\* an error is made with no cause
ErrNew ==
    /\ errvals = <<>>
    /\ \E m \in Messages, plain \in BOOLEAN :
        errvals' = <<[err |-> IF plain THEN PlainError(m) ELSE NewError(m, <<>>),
                     asked |-> FALSE, cause |-> <<>>, deepest |-> <<>>]>>
    /\ UNCHANGED <<resourceVars, listing, scanner>>

\* the error is wrapped
ErrWrap ==
    /\ errvals # <<>> /\ ~errvals[1].asked
    /\ ChainLen(<<errvals[1].err>>) < MaxChain
    /\ \E m \in Messages :
        errvals' = <<[errvals[1] EXCEPT !.err = Wrap(<<errvals[1].err>>, m)]>>
    /\ UNCHANGED <<resourceVars, listing, scanner>>

\* the holder of the error asks for its cause: err.Cause() and Cause(err)
ErrAskCause ==
    /\ errvals # <<>> /\ ~errvals[1].asked
    /\ errvals[1].err.type = "errCore"
    /\ errvals' = <<[errvals[1] EXCEPT
                      !.asked = TRUE,
                      !.cause = ErrCoreCause(errvals[1].err),
                      !.deepest = Cause(<<errvals[1].err>>)]>>
    /\ UNCHANGED <<resourceVars, listing, scanner>>

InitErr == ResourceAtRest /\ OtherPartsAtRest

NextErr == ErrNew \/ ErrWrap \/ ErrAskCause

SpecErr == InitErr /\ [][NextErr]_vars

(***************************************************************************)
(* The paginated listings of the GCP stack: ListImages, ListTemplates and  *)
(* ListHosts. A page token is a number: 0 is the empty token, which asks   *)
(* for the first page, and token k asks for page k + 1. A provider listing *)
(* is the sequence of the numbers of items of its pages; item k of page i  *)
(* of listing f is <<f, i, k>>.                                            *)
(***************************************************************************)
MaxPages == 2
MaxItems == 1
\* requests one listing call may make before it is left where it is; a loop
\* that asks for each page once needs Len(Families) * MaxPages of them
MaxRequests == 6
MaxListFaults == 1

\* the projects ListImages goes through (the first ones of its list)
Families == <<"centos-cloud", "debian-cloud">>

ListingFunctions == {"ListImages", "ListTemplates", "ListHosts"}

\* ListImages lists every family, the others list one collection
NumListings(fn) == IF fn = "ListImages" THEN Len(Families) ELSE 1

ProviderListings ==
    UNION {[1..n -> 0..MaxItems] : n \in 1..MaxPages}

\* resp.Items of page i
ItemsOfPage(f, i, n) == [k \in 1..n |-> <<f, i, k>>]

\* resp.NextPageToken of page i: empty on the last page
NextPageToken(pages, i) == IF i < Len(pages) THEN i ELSE 0

\* 'token := resp.NextPageToken' in the body of the loop declares a variable
\* of the body: the variable the request reads keeps its value
TokenAfterPage(token, next) == token

\* one turn of the loop whose request is answered
AfterPage(l) ==
    LET pages == l.provider[l.fam]
        i     == l.token + 1
        next  == NextPageToken(pages, i)
    IN  [l EXCEPT !.requests = Append(@, <<l.fam, l.token>>),
                  !.items = @ \o ItemsOfPage(l.fam, i, pages[i]),
                  !.token = TokenAfterPage(l.token, next),
                  !.paginate = next # 0]

\* one turn of the loop whose request fails: ListHosts returns the error,
\* ListImages and ListTemplates log it and leave the loop
AfterError(l) ==
    IF l.fn = "ListHosts"
    THEN [l EXCEPT !.requests = Append(@, <<l.fam, l.token>>),
                   !.faults = @ + 1, !.failed = TRUE,
                   !.done = TRUE, !.err = "cannot list hosts"]
    ELSE [l EXCEPT !.requests = Append(@, <<l.fam, l.token>>),
                   !.faults = @ + 1, !.failed = TRUE,
                   !.paginate = FALSE]

\* a listing function is called on a provider that holds some pages
ListStart ==
    /\ listing = <<>>
    /\ \E fn \in ListingFunctions :
        \E provider \in [1..NumListings(fn) -> ProviderListings] :
            listing' = <<[fn |-> fn, provider |-> provider, fam |-> 1,
                          token |-> 0, paginate |-> TRUE, items |-> <<>>,
                          requests |-> <<>>, faults |-> 0, failed |-> FALSE,
                          done |-> FALSE, err |-> ""]>>
    /\ UNCHANGED <<resourceVars, errvals, scanner>>

\* 'for paginate := true; paginate; { ... }': one turn
ListRequest ==
    /\ listing # <<>>
    /\ ~listing[1].done /\ listing[1].paginate
    /\ Len(listing[1].requests) < MaxRequests
    /\ \E ok \in BOOLEAN :
        /\ ok \/ listing[1].faults < MaxListFaults
        /\ listing' = <<IF ok THEN AfterPage(listing[1])
                        ELSE AfterError(listing[1])>>
    /\ UNCHANGED <<resourceVars, errvals, scanner>>

\* the loop is left: ListImages goes to its next family with an empty token,
\* after the last one the function returns what it collected
ListLeaveLoop ==
    /\ listing # <<>>
    /\ ~listing[1].done /\ ~listing[1].paginate
    /\ listing' = <<IF listing[1].fam < NumListings(listing[1].fn)
                    THEN [listing[1] EXCEPT !.fam = @ + 1, !.token = 0,
                                            !.paginate = TRUE]
                    ELSE [listing[1] EXCEPT !.done = TRUE]>>
    /\ UNCHANGED <<resourceVars, errvals, scanner>>

InitListing == ResourceAtRest /\ OtherPartsAtRest

NextListing == ListStart \/ ListRequest \/ ListLeaveLoop

SpecListing == InitListing /\ [][NextListing]_vars

\* the function that was called keeps running until it returns
SpecListingLive == SpecListing /\ WF_vars(NextListing)

(***************************************************************************)
(* The scanner's analyzeTenant: one goroutine per template runs            *)
(* hostAnalysis, a channel used as a semaphore limits how many run, a wait *)
(* group tells when all have finished. The main goroutine is at "dispatch" *)
(* (the loop over the templates), "fill" (the loop that fills the channel),*)
(* "wait" (wg.Wait) or "returned".                                         *)
(***************************************************************************)
MaxTemplates == 10

\* math.Min(4, float64(len(templates)/2)), converted to int
Concurrency(n) == IF n \div 2 < 4 THEN n \div 2 ELSE 4

\* where the main goroutine is once 'next' is the next template to dispatch
AfterDispatch(next, n) == IF next > n THEN "fill" ELSE "dispatch"

\* 'sem <- true' goes through while the buffer of the channel has room. A
\* channel of capacity 0 has no buffer: its send needs a goroutine waiting at
\* '<-sem', and those goroutines are started after a send only
CanSend(s) == s.buf < s.cap

\* analyses that run hostAnalysis
RunningAnalyses(s) == {k \in 1..s.n : s.an[k] = "running"}

\* analyzeTenant up to the dispatch loop: the channel is made, wg.Add
ScanStart ==
    /\ scanner = <<>>
    /\ \E n \in 0..MaxTemplates :
        scanner' = <<[n |-> n, cap |-> Concurrency(n), buf |-> 0, wg |-> n,
                      next |-> 1, filled |-> 0, main |-> AfterDispatch(1, n),
                      an |-> [k \in 1..n |-> "none"]]>>
    /\ UNCHANGED <<resourceVars, errvals, listing>>

\* one turn of the dispatch loop: 'sem <- true', then the goroutine starts
ScanDispatch ==
    /\ scanner # <<>>
    /\ scanner[1].main = "dispatch"
    /\ CanSend(scanner[1])
    /\ scanner' = <<[scanner[1] EXCEPT
                       !.buf = @ + 1,
                       !.an[scanner[1].next] = "running",
                       !.next = @ + 1,
                       !.main = AfterDispatch(scanner[1].next + 1, scanner[1].n)]>>
    /\ UNCHANGED <<resourceVars, errvals, listing>>

\* hostAnalysis returns in its goroutine: the deferred wg.Done runs
AnalysisFinish(k) ==
    /\ scanner # <<>>
    /\ k \in 1..scanner[1].n
    /\ scanner[1].an[k] = "running"
    /\ scanner' = <<[scanner[1] EXCEPT !.an[k] = "finished", !.wg = @ - 1]>>
    /\ UNCHANGED <<resourceVars, errvals, listing>>

\* the goroutine ends: its deferred '<-sem' takes a value out of the channel
AnalysisRelease(k) ==
    /\ scanner # <<>>
    /\ k \in 1..scanner[1].n
    /\ scanner[1].an[k] = "finished"
    /\ scanner[1].buf > 0
    /\ scanner' = <<[scanner[1] EXCEPT !.an[k] = "released", !.buf = @ - 1]>>
    /\ UNCHANGED <<resourceVars, errvals, listing>>

\* 'for i := 0; i < cap(sem); i++ { sem <- true }': one turn
ScanFill ==
    /\ scanner # <<>>
    /\ scanner[1].main = "fill"
    /\ scanner[1].filled < scanner[1].cap
    /\ CanSend(scanner[1])
    /\ scanner' = <<[scanner[1] EXCEPT !.buf = @ + 1, !.filled = @ + 1]>>
    /\ UNCHANGED <<resourceVars, errvals, listing>>

\* the filling loop is over, wg.Wait() is called
ScanFilled ==
    /\ scanner # <<>>
    /\ scanner[1].main = "fill"
    /\ scanner[1].filled = scanner[1].cap
    /\ scanner' = <<[scanner[1] EXCEPT !.main = "wait"]>>
    /\ UNCHANGED <<resourceVars, errvals, listing>>

\* wg.Wait() returns when the counter is 0, analyzeTenant returns nil
ScanWait ==
    /\ scanner # <<>>
    /\ scanner[1].main = "wait"
    /\ scanner[1].wg = 0
    /\ scanner' = <<[scanner[1] EXCEPT !.main = "returned"]>>
    /\ UNCHANGED <<resourceVars, errvals, listing>>

InitScanner == ResourceAtRest /\ OtherPartsAtRest

NextScanner ==
    \/ ScanStart
    \/ ScanDispatch
    \/ \E k \in 1..MaxTemplates : AnalysisFinish(k)
    \/ \E k \in 1..MaxTemplates : AnalysisRelease(k)
    \/ ScanFill
    \/ ScanFilled
    \/ ScanWait

SpecScanner == InitScanner /\ [][NextScanner]_vars

\* a goroutine that can run does run, and hostAnalysis returns
SpecScannerLive == SpecScanner /\ WF_vars(NextScanner)

(***************************************************************************)
(* Properties of the object under concurrent use.                          *)
(***************************************************************************)
\* the content of hosts.v1 (empty while the key was never altered)
HostsV1(props) == IF props = <<>> THEN NewNetworkHosts ELSE props[1]

\* the call of task t has its result and has not returned to other tasks'
\* view: Alter, Carry and Delete still hold the lock at "Unlock"
Returning(t, fn) == call[t].fn = fn /\ pc[t] = "Unlock"

AllIdle == \A t \in Tasks : pc[t] = "idle"

ApplyCallback(cb, st) ==
    LET out == RunCallback(cb, st.payload, st.props)
    IN  [payload |-> out.payload, props |-> out.props]

\* the results of applying the callbacks hist[i], i in S, one after the other
\* in every order
RECURSIVE SerialOutcomes(_, _)
SerialOutcomes(S, st) ==
    IF S = {} THEN {st}
    ELSE UNION {SerialOutcomes(S \ {i}, ApplyCallback(hist[i], st)) : i \in S}

Stored(st) ==
    /\ st.payload.ID \in DOMAIN byID
    /\ st.payload.Name \in DOMAIN byName
    /\ byID[st.payload.ID] = Serialize(st.payload)
    /\ byName[st.payload.Name] = Serialize(st.payload)
    /\ properties = st.props

\* C1: when the Alters run by the tasks (concurrently or not) have all
\* returned nil, the stored payload and the properties are those of applying
\* their callbacks one after the other in some order; hosts attached by
\* AttachHost calls are all in hosts.v1 (no update is lost).
C1_AlterLinearizable ==
    (clean /\ base # <<>> /\ AllIdle) =>
        /\ \E st \in SerialOutcomes(1..Len(hist), base[1]) : Stored(st)
        /\ (\A i \in 1..Len(hist) : hist[i].kind # "DetachHost") =>
              \A i \in 1..Len(hist) :
                  hist[i].kind = "AttachHost" =>
                      hist[i].host \in DOMAIN HostsV1(properties).ByID

\* two Alters overlapped, both returned nil, one changed the payload and the
\* other attached a host
C1_Witness ==
    /\ clean /\ AllIdle /\ Len(hist) = 2 /\ overlapped
    /\ {hist[1].kind, hist[2].kind} = {"SetState", "AttachHost"}
    /\ byID[id]["status"] = "READY"

\* C2: when Alter or Carry returns nil, byID/<id> and byName/<name> of the
\* payload both exist and hold the same document.
C2_IndicesIdentical ==
    \A t \in Tasks :
        ((Returning(t, "Alter") \/ Returning(t, "Carry")) /\ res[t] = "ok") =>
            /\ shielded # <<>>
            /\ shielded[1].ID \in DOMAIN byID
            /\ shielded[1].Name \in DOMAIN byName
            /\ byID[shielded[1].ID] = byName[shielded[1].Name]

\* an Alter whose callback changed the payload returns nil
C2_Witness ==
    \E t \in Tasks :
        /\ Returning(t, "Alter") /\ res[t] = "ok"
        /\ call[t].cb.kind = "SetGatewayID"
        /\ byName[name]["gateway_id"] = "gw-1"

\* C5 (as claimed): once Delete has returned nil, Inspect, Alter, Reload and
\* Delete return InvalidInstance, run no callback and make no storage call.
C5_InvalidInstanceAfterDelete ==
    \A t \in Tasks :
        (/\ obs[t].postDel /\ deleted
         /\ call[t].fn \in {"Inspect", "Alter", "Reload", "Delete"}
         /\ res[t] # ""
         /\ pc[t] \in {"Done", "Unlock", "RUnlock"}) =>
            /\ res[t] = "InvalidInstance"
            /\ ~obs[t].cbRan
            /\ ~obs[t].touched

\* C6 (as claimed): when the callback of Alter returns an error, Alter
\* returns it, writes nothing, and payload and properties in memory are
\* those the Reload of this Alter left.
C6_FailedCallbackLeavesNoTrace ==
    \A t \in Tasks :
        (/\ Returning(t, "Alter") /\ obs[t].cbRan
         /\ RunCallback(call[t].cb, obs[t].rel[1].payload, obs[t].rel[1].props).err # "") =>
            /\ res[t] = "CallbackError"
            /\ ~obs[t].wrote
            /\ shielded = <<obs[t].rel[1].payload>>
            /\ properties = obs[t].rel[1].props

\* C7: when Delete returns nil, neither byID/<id> nor byName/<name> of the
\* payload the object carried exists, whichever of the two existed before.
C7_DeleteRemovesBothIndices ==
    \A t \in Tasks :
        (Returning(t, "Delete") /\ res[t] = "ok" /\ obs[t].ident # <<>>) =>
            /\ obs[t].ident[1].id \notin DOMAIN byID
            /\ obs[t].ident[1].name \notin DOMAIN byName

\* Delete returns nil after finding only one of the two entries
C7_Witness ==
    \E t \in Tasks :
        /\ Returning(t, "Delete") /\ res[t] = "ok" /\ obs[t].ident # <<>>
        /\ obs[t].preID # obs[t].preName

\* C10: DetachHost of an id that hosts.v1 does not hold returns nil (unless
\* the write of the metadata fails) and leaves ByID and ByName as they were;
\* AttachHost of a host already attached under that id and name leaves ByID
\* and ByName as they were.
C10_AttachDetachIdempotent ==
    \A t \in Tasks :
        (Returning(t, "Alter") /\ obs[t].cbRan) =>
            LET before == HostsV1(obs[t].rel[1].props)
                h == call[t].cb.host
            IN  /\ (call[t].cb.kind = "DetachHost" /\ h \notin DOMAIN before.ByID) =>
                      /\ res[t] \in {"ok", "StorageError"}
                      /\ HostsV1(properties) = before
                /\ (/\ call[t].cb.kind = "AttachHost"
                    /\ h \in DOMAIN before.ByID
                    /\ before.ByID[h] = HostByID(h).name
                    /\ HostByID(h).name \in DOMAIN before.ByName
                    /\ before.ByName[HostByID(h).name] = h) =>
                      /\ res[t] \in {"ok", "StorageError"}
                      /\ HostsV1(properties) = before

\* after two identical AttachHost of h2, a DetachHost of h1, which is not
\* attached, has returned nil
C10_Witness ==
    \E t \in Tasks :
        /\ Returning(t, "Alter") /\ res[t] = "ok"
        /\ call[t].cb = Callback("DetachHost", "", "h1")
        /\ DOMAIN HostsV1(properties).ByID = {"h2"}
        /\ hist = <<Callback("AttachHost", "", "h2"), Callback("AttachHost", "", "h2")>>

\* C11: Carry and Read called on an object that carries a payload return
\* NotAvailable and leave the payload, the cached id and name and both
\* indices as they were; a carried payload is dropped by Delete alone.
C11_CarryingRefusesCarryAndRead ==
    [][/\ \A t \in Tasks :
            (pc[t] \in {"Carry", "Read"} /\ shielded # <<>> /\ pc'[t] # pc[t]) =>
                /\ pc'[t] = "Done"
                /\ res'[t] = "NotAvailable"
                /\ UNCHANGED <<shielded, name, id, byID, byName>>
       /\ (shielded # <<>> /\ shielded' = <<>>) =>
            \E t \in Tasks : call[t].fn = "Delete" /\ pc[t] = "DeleteName"]_vars

\* on an object that carries a payload, a Carry and a Read were both refused
C11_Witness ==
    /\ shielded # <<>>
    /\ \E t, u \in Tasks :
        /\ call[t].fn = "Carry" /\ pc[t] = "Done" /\ res[t] = "NotAvailable"
        /\ call[u].fn = "Read" /\ pc[u] = "Done" /\ res[u] = "NotAvailable"

\* C24: the payload that the callback of an Inspect or of an Alter is about
\* to receive is the one Reload read from byID, and it holds every value of
\* the document written by the last Alter (or Carry) that returned nil: the
\* callback never sees a revision older than that one.
C24_CallbackSeesLastRevision ==
    \A t \in Tasks :
        (pc[t] \in {"AlterCallback", "InspectCallback"} /\ rev # <<>>) =>
            /\ shielded # <<>>
            /\ obs[t].rel = <<[payload |-> shielded[1], props |-> properties]>>
            /\ Deserialize(rev[1], shielded[1]) = shielded[1]
            /\ byID[id] = rev[1]

\* an Alter has stored a gateway and READY; the callback of an Inspect that
\* came after it is about to run on that revision
C24_Witness ==
    \E t \in Tasks :
        /\ pc[t] = "InspectCallback"
        /\ Len(hist) = 2
        /\ {hist[1].kind, hist[2].kind} = {"SetState", "SetGatewayID"}
        /\ rev = <<Serialize([CreatedNetwork EXCEPT !.NetworkState = "READY",
                                                    !.GatewayID = "gw-1"])>>
        /\ shielded[1].GatewayID = "gw-1" /\ shielded[1].NetworkState = "READY"

\* C26: an Alter that found byID/<id> and byName/<name> holding different
\* documents (one put of an earlier write had failed) and returns nil leaves
\* both holding the same document, that of the payload it wrote.
C26_AlterRepairsDivergence ==
    \A t \in Tasks :
        (Returning(t, "Alter") /\ res[t] = "ok" /\ obs[t].split) =>
            /\ IndicesAgree
            /\ shielded # <<>>
            /\ byID[id] = Serialize(shielded[1])

\* the write of an Alter failed after its first put; the Alter that came
\* next has returned nil
C26_Witness ==
    \E t \in Tasks :
        /\ Returning(t, "Alter") /\ res[t] = "ok" /\ obs[t].split
        /\ faults = 1 /\ clean = FALSE
        /\ IndicesAgree

\* C25 (as claimed): a Read(ref) that got past the test of c.shielded returns
\* nil when byID/<ref> or, failing that, byName/<ref> exists, and the object
\* then carries the payload of that document with its id and name cached;
\* it returns NotFound when neither exists.
C25_ReadCarriesWhatItRead ==
    \A t \in Tasks :
        Returning(t, "Read") =>
            LET ref == call[t].cb.host
            IN  IF ref \in DOMAIN byID \cup DOMAIN byName
                THEN /\ res[t] = "ok"
                     /\ shielded # <<>>
                     /\ Serialize(shielded[1]) =
                            (IF ref \in DOMAIN byID THEN byID[ref] ELSE byName[ref])
                     /\ id = shielded[1].ID /\ name = shielded[1].Name
                ELSE res[t] = "NotFound"

\* task t reloads a resource that carries a payload whose byID/<id> is gone
ReloadsVanished(t) ==
    /\ pc[t] \in {"AlterReload", "InspectReload", "Reload"}
    /\ pc'[t] # pc[t]
    /\ ~IsNull /\ shielded # <<>>
    /\ SafeGetID \notin DOMAIN byID

\* task t leaves an Alter or an Inspect whose Reload answered NotFound
LeavesVanished(t) ==
    /\ pc[t] \in {"Unlock", "RUnlock"}
    /\ pc'[t] # pc[t]
    /\ call[t].fn \in {"Alter", "Inspect"}
    /\ res[t] = "NotFound"
    /\ obs[t].touched /\ obs[t].rel = <<>>

\* C29: on a resource that carries a payload whose byID/<id> entry is gone,
\* Reload, Inspect and Alter return NotFound: the Reload answers NotFound and
\* the call goes to its exit without running the callback, nothing is
\* written to the storage, and the exit gives back the lock the call took.
C29_VanishedIsNotFound ==
    [][\A t \in Tasks :
        /\ ReloadsVanished(t) =>
              /\ res'[t] = "NotFound"
              /\ pc'[t] = (CASE pc[t] = "AlterReload" -> "Unlock"
                             [] pc[t] = "InspectReload" -> "RUnlock"
                             [] OTHER -> "Done")
              /\ ~obs'[t].cbRan /\ ~obs'[t].wrote
              /\ byID' = byID /\ byName' = byName
              /\ shielded' = shielded /\ lock' = lock
        /\ LeavesVanished(t) =>
              /\ ~obs[t].cbRan /\ ~obs[t].wrote
              /\ byID' = byID /\ byName' = byName
              /\ call[t].fn = "Alter" =>
                    /\ lock'.depth = lock.depth - 1
                    /\ lock'.readers = lock.readers
                    /\ stack[t] = <<>> => lock'.owner = NoTask /\ lock'.depth = 0
              /\ call[t].fn = "Inspect" =>
                    /\ lock'.readers[t] = lock.readers[t] - 1
                    /\ lock'.owner = lock.owner /\ lock'.depth = lock.depth
                    /\ stack[t] = <<>> => lock'.readers[t] = 0
              /\ stack[t] = <<>> => pc'[t] = "idle"]_vars

\* an Alter on a carrying resource whose byID/<id> is gone is at its exit
\* with NotFound, holding the write lock it is about to give back
C29_Witness ==
    \E t \in Tasks :
        /\ pc[t] = "Unlock" /\ call[t].fn = "Alter"
        /\ res[t] = "NotFound" /\ ~obs[t].cbRan
        /\ ~IsNull /\ shielded # <<>> /\ SafeGetID \notin DOMAIN byID
        /\ lock.owner = t /\ lock.depth = 1

\* C35 (as claimed): when a method returns nil on an object that carries a
\* payload, the cached id and the cached name are the ID and the Name of the
\* payload, also when the callback of the Alter changed them.
C35_CacheFollowsPayload ==
    \A t \in Tasks :
        (pc[t] \in {"Unlock", "RUnlock", "Done"} /\ res[t] = "ok"
            /\ shielded # <<>>) =>
                /\ SafeGetID = shielded[1].ID
                /\ SafeGetName = shielded[1].Name

\* C36 (as claimed): of the Carry calls that tasks make at the same time on
\* an object that carries nothing at most one returns nil: a Carry never
\* returns nil on an object for which another Carry has returned nil (and no
\* Delete since).
C36_OneCarrySucceeds ==
    \A t \in Tasks :
        (Returning(t, "Carry") /\ res[t] = "ok") => rev = <<>>

\* C37 (as claimed): a Carry that returns an error, on an object that no
\* call has made carry a payload, leaves the object carrying nothing.
C37_FailedCarryCarriesNothing ==
    \A t \in Tasks :
        (Returning(t, "Carry") /\ res[t] # "ok" /\ rev = <<>>) => shielded = <<>>

\* task t returns from the Core method it runs
ReturnsFromCore(t) ==
    /\ pc[t] \in {"Unlock", "RUnlock", "Done"}
    /\ pc'[t] # pc[t]

\* C34: Inspect, Alter, Carry, Read and Delete give the lock back once on
\* every return, with an error or without: when the method returns the task
\* holds the lock as many times as before the method took it, and once no
\* task runs a method the lock is free.
C34_LockIsBalanced ==
    /\ [][\A t \in Tasks :
            ReturnsFromCore(t) =>
                Holds(t)' = IF obs[t].held = <<>> THEN Holds(t)
                            ELSE obs[t].held[1]]_vars
    /\ [](\A t \in Tasks : pc[t] = "idle" => Holds(t) = [write |-> 0, read |-> 0])

\* a Carry whose write failed is about to return, holding the lock another
\* task waits for
C34_Witness ==
    \E t \in Tasks, u \in Tasks :
        /\ pc[t] = "Unlock" /\ call[t].fn = "Carry"
        /\ res[t] = "StorageError"
        /\ obs[t].held = <<[write |-> 0, read |-> 0]>>
        /\ Holds(t).write = 1
        /\ pc[u] \in {"Alter", "Delete", "Inspect", "ReadLock", "CarryLock"}

(***************************************************************************)
(* Properties of Network.Create.                                           *)
(***************************************************************************)
Created == net.op = "Create" /\ net.done

\* provider calls that create a resource
CreatingCalls == {"CreateNetwork", "CreateVIP", "CreateKeyPair", "CreateHost"}

\* the Create has made no creating provider call, and metadata and provider
\* are as they were when it began
NoSideEffect ==
    /\ \A i \in 1..Len(net.plog) : net.plog[i] \notin CreatingCalls
    /\ byID = net.pre[1].byID
    /\ byName = net.pre[1].byName
    /\ prov = net.pre[1].prov

\* the name of the request was in the metadata when the Create began
NameInMetadata ==
    net.req.name \in DOMAIN net.pre[1].byID \cup DOMAIN net.pre[1].byName

Reverse(q) == [i \in 1..Len(q) |-> q[Len(q) + 1 - i]]

\* C4 (as claimed): when Create fails after the provider network was made,
\* with keepOnFailure false and every compensation succeeding, the
\* compensations ran in the reverse order of their registration and, once
\* no subtask runs any more, no gateway host, VIP or provider network is
\* left and the metadata are as before the Create.
C4_RollbackLeavesNothing ==
    (/\ Created /\ net.xerr # "" /\ ~net.req.keep
     /\ net.registered # <<>> /\ net.conseq = <<>>
     /\ \A w \in {"primary", "secondary"} : net.task[w] # "running") =>
        /\ net.ran = Reverse(net.registered)
        /\ prov.hosts = {}
        /\ ~prov.vip
        /\ ~prov.network
        /\ byID = net.pre[1].byID
        /\ byName = net.pre[1].byName

\* C8 (as claimed): a Create whose CIDR is routable returns InvalidRequest,
\* makes no creating provider call and writes no metadata.
C8_RoutableIsInvalidRequest ==
    (Created /\ net.req.cidr = "8.8.8.0/24") =>
        net.xerr = "InvalidRequest" /\ NoSideEffect

\* C8 (amended): a Create whose CIDR is routable makes no creating provider
\* call and writes no metadata; it returns Duplicate when the name is in the
\* metadata, else the error of svc.GetNetworkByName or Duplicate (not
\* managed) when the provider knows the name, and InvalidRequest only when
\* both checks of the name passed.
C8_RoutableNeverCreates ==
    (Created /\ net.req.cidr = "8.8.8.0/24") =>
        /\ NoSideEffect
        /\ net.xerr = IF NameInMetadata THEN "Duplicate"
                      ELSE IF net.xerr = "ProviderError" THEN "ProviderError"
                      ELSE IF net.pre[1].prov.network THEN "DuplicateNotManaged"
                      ELSE "InvalidRequest"

\* a routable CIDR with a free name was refused with InvalidRequest
C8_Witness ==
    /\ Created /\ net.req.cidr = "8.8.8.0/24" /\ net.xerr = "InvalidRequest"
    /\ net.plog = <<"GetNetworkByName">>

\* C9: a Create whose name is in the metadata returns Duplicate; one whose
\* name only the provider knows returns Duplicate with the message "not
\* managed" (or the error of the provider lookup when that fails); neither
\* creates a provider resource nor writes metadata.
C9_DuplicateWithoutSideEffect ==
    Created =>
        /\ NameInMetadata => (net.xerr = "Duplicate" /\ NoSideEffect)
        /\ (~NameInMetadata /\ net.pre[1].prov.network) =>
              /\ net.xerr \in {"DuplicateNotManaged", "ProviderError"}
              /\ NoSideEffect

\* both kinds of Duplicate are returned: here the one for a network the
\* provider knows and the metadata do not
C9_Witness ==
    /\ Created /\ net.xerr = "DuplicateNotManaged"
    /\ ~NameInMetadata /\ net.req.cidr = "192.168.0.0/24"

\* C12: once a Create with keepOnFailure has failed, no compensation runs:
\* the provider network, the VIP, the key pair, the gateways made so far and
\* the metadata stay as they are at the failure (a subtask still running may
\* yet add its gateway).
C12_KeepOnFailureKeepsAll ==
    [][(net.op = "Create" /\ net.xerr # "" /\ net.req.keep) =>
          /\ net'.ran = <<>>
          /\ net'.conseq = <<>>
          /\ prov'.network = prov.network
          /\ prov'.vip = prov.vip
          /\ prov'.keypair = prov.keypair
          /\ prov.hosts \subseteq prov'.hosts
          /\ prov.hostmeta \subseteq prov'.hostmeta
          /\ prov.bound \subseteq prov'.bound
          /\ byID' = byID
          /\ byName' = byName]_vars

\* an HA Create with keepOnFailure has failed on its secondary gateway and
\* has returned: network, VIP, primary gateway and metadata are there
C12_Witness ==
    /\ Created /\ net.req.keep /\ net.xerr = "SecondaryGatewayError"
    /\ net.registered = <<"DeleteNetwork", "DeleteVIP", "DeleteMetadata",
                          "DeletePrimaryGateway">>
    /\ prov.network /\ prov.vip /\ prov.hosts = {<<"gw-", "n1">>}
    /\ "net-1" \in DOMAIN byID /\ "n1" \in DOMAIN byName

\* C13: while a failed Create rolls back, the error it returns keeps its
\* message (kind and cause), and its consequences are the errors of the
\* calls the compensations made, in the order they were made; a call that
\* returned nil adds nothing.
C13_CompensationErrorsAreConsequences ==
    [][(net.op = "Create" /\ net.xerr # "") =>
          /\ net'.xerr = net.xerr
          /\ net'.conseq = SelectSeq(net'.outcomes, LAMBDA e : e # "")]_vars

\* the secondary gateway failed; in the rollback the deletion of the primary
\* gateway, of the metadata and of the VIP failed, the unbinding of the
\* gateway and the deletion of the network succeeded
C13_Witness ==
    /\ Created /\ net.xerr = "SecondaryGatewayError"
    /\ net.ran = <<"DeletePrimaryGateway", "DeleteMetadata", "DeleteVIP",
                   "DeleteNetwork">>
    /\ net.outcomes = <<"HostError", "", "StorageError", "ProviderError", "">>
    /\ net.conseq = <<"HostError", "StorageError", "ProviderError">>

\* C14: an HA Create whose two gateway subtasks failed returns the error
\* of the primary gateway; it returns the error of the secondary gateway
\* only when the primary gateway was created; when one of the two was
\* created and the other failed, the rollback (keepOnFailure false) begins
\* with deleteGateway of the one created, which removes host and host
\* metadata unless it reports an error.
C14_PrimaryErrorFirst ==
    (Created /\ net.failover) =>
        /\ (net.task.primary = "failed" /\ net.task.secondary = "failed") =>
              net.xerr = "PrimaryGatewayError"
        /\ net.xerr = "SecondaryGatewayError" =>
              (net.task.primary = "ok" /\ net.task.secondary = "failed")
        /\ \A w \in {"primary", "secondary"} :
              (/\ net.task[w] = "ok" /\ ~net.req.keep
               /\ net.xerr \in {"PrimaryGatewayError", "SecondaryGatewayError"}) =>
                  /\ net.ran # <<>>
                  /\ net.ran[1] = (IF w = "primary" THEN "DeletePrimaryGateway"
                                   ELSE "DeleteSecondaryGateway")
                  /\ net.outcomes[1] = "" =>
                        /\ net.gw[w][1] \notin prov.hosts
                        /\ net.gw[w][1] \notin prov.hostmeta

\* both gateway subtasks of an HA Create have failed
C14_Witness ==
    /\ Created /\ net.failover /\ net.xerr = "PrimaryGatewayError"
    /\ net.task.primary = "failed" /\ net.task.secondary = "failed"
    /\ net.ran = <<"DeleteMetadata", "DeleteVIP", "DeleteNetwork">>

\* C18 (as claimed): after a Create that returned nil the provider holds
\* the network, the key pair and the gateways asked for, byID/<id> and
\* byName/<name> exist with state READY, the stored payload names the
\* primary gateway, and GetDefaultRouteIP returns the private IP of the VIP
\* when there is one, else that of the primary gateway.
C18_CreatedNetworkIsComplete ==
    (Created /\ net.xerr = "" /\ net.route # <<>>) =>
        /\ prov.network /\ prov.keypair
        /\ prov.hosts = {net.gw.primary[1]} \cup
                         (IF net.failover THEN {net.gw.secondary[1]} ELSE {})
        /\ TheNetwork.ID \in DOMAIN byID /\ TheNetwork.Name \in DOMAIN byName
        /\ byID[TheNetwork.ID]["status"] = "READY"
        /\ byName[TheNetwork.Name]["status"] = "READY"
        /\ "gateway_id" \in DOMAIN byID[TheNetwork.ID]
        /\ net.route[1].err = ""
        /\ net.route[1].ip = IF net.failover THEN PrivateIPOf("vip-1")
                             ELSE PrivateIPOf(net.gw.primary[1])

\* the Create has called the provider for that
Called(c) == \E i \in 1..Len(net.plog) : net.plog[i] = c

\* C19: Create calls CreateVIP and starts the subtask of a secondary gateway
\* only when the request has HA and the provider has PrivateVirtualIP; a
\* Create that returned nil has made the VIP and the secondary gateway
\* exactly in that case, has made the primary gateway in every case, and has
\* left the network in state READY.
C19_FailoverIffHAAndCapability ==
    net.op = "Create" =>
        /\ Called("CreateVIP") => (net.req.ha /\ prov.caps)
        /\ net.task.secondary # "none" => (net.req.ha /\ prov.caps)
        /\ (Created /\ net.xerr = "") =>
              /\ prov.vip = (net.req.ha /\ prov.caps)
              /\ (net.gw.secondary # <<>>) = (net.req.ha /\ prov.caps)
              /\ prov.hosts = {net.gw.primary[1]} \cup
                               (IF net.req.ha /\ prov.caps
                                THEN {<<"gw2-", net.req.name>>} ELSE {})
              /\ byID[TheNetwork.ID]["status"] = "READY"
              /\ byName[TheNetwork.Name]["status"] = "READY"

\* HA was asked of a provider without private virtual IPs: the Create has
\* returned nil with the primary gateway alone and no VIP
C19_Witness ==
    /\ Created /\ net.xerr = "" /\ net.req.ha /\ ~prov.caps
    /\ ~Called("CreateVIP") /\ ~prov.vip
    /\ prov.hosts = {<<"gw-", "n1">>}
    /\ byID[TheNetwork.ID]["status"] = "READY"

\* C20 (as claimed): the primary gateway bears the name asked for when there
\* is one, with or without HA, and gw-<network> otherwise; the secondary
\* gateway, made only with HA, is gw2-<network>.
C20_ExplicitNameAlwaysUsed ==
    (net.op = "Create" /\ net.gw.primary # <<>>) =>
        /\ net.gw.primary[1] = IF net.req.gwname # "" THEN <<net.req.gwname>>
                               ELSE <<"gw-", net.req.name>>
        /\ net.gw.secondary # <<>> =>
              (net.req.ha /\ net.gw.secondary[1] = <<"gw2-", net.req.name>>)

\* C20 (amended): the primary gateway bears the name asked for when there
\* is one and failover is off (HA not asked for, or no PrivateVirtualIP),
\* and gw-<network> otherwise; the secondary gateway, made only under
\* failover, is gw2-<network>; the gateway hosts made bear these names, and
\* a Create without gateway name that returned nil has made gw-<network>.
C20_GatewayNames ==
    (net.op = "Create" /\ net.gw.primary # <<>>) =>
        /\ net.gw.primary[1] =
              IF net.req.gwname # "" /\ ~(net.req.ha /\ prov.caps)
              THEN <<net.req.gwname>> ELSE <<"gw-", net.req.name>>
        /\ net.gw.secondary = IF net.req.ha /\ prov.caps
                              THEN <<<<"gw2-", net.req.name>>>> ELSE <<>>
        /\ prov.hosts \subseteq
              {net.gw.primary[1]} \cup {net.gw.secondary[i] : i \in DOMAIN net.gw.secondary}
        /\ (Created /\ net.xerr = "" /\ net.req.gwname = "") =>
              <<"gw-", net.req.name>> \in prov.hosts

\* an HA Create that was given a gateway name has returned nil: the
\* gateways are gw-n1 and gw2-n1
C20_Witness ==
    /\ Created /\ net.xerr = "" /\ net.failover /\ net.req.gwname = "mygw"
    /\ prov.hosts = {<<"gw-", "n1">>, <<"gw2-", "n1">>}

\* the networkState a stored document holds: the field is left out of the
\* document when it is UNKNOWN
StateRank(doc) ==
    LET st == IF "status" \in DOMAIN doc THEN doc["status"] ELSE NetworkStates[1]
    IN  CHOOSE i \in 1..Len(NetworkStates) : NetworkStates[i] = st

\* the documents stored for the network the Create is making
StoredDocuments ==
    {byID[k] : k \in DOMAIN byID \cap {TheNetwork.ID}}
    \cup {byName[k] : k \in {n \in DOMAIN byName : byName[n]["id"] = TheNetwork.ID}}

\* the subtask of that gateway was waited for and has succeeded
GatewayWaitedFor(w) ==
    /\ net.task[w] = "ok"
    /\ \E i \in 1..Len(net.registered) :
          net.registered[i] = (IF w = "primary" THEN "DeletePrimaryGateway"
                               ELSE "DeleteSecondaryGateway")

\* C22: during Create the networkState stored under byID and under byName
\* never moves back along UNKNOWN, GATEWAY_CREATION, GATEWAY_CONFIGURATION,
\* READY; GATEWAY_CONFIGURATION is stored only when every gateway subtask
\* started was waited for and has succeeded, READY only when moreover the
\* final subtask of every gateway has succeeded.
C22_StateOnlyMovesForward ==
    /\ [](net.op = "Create" =>
            \A doc \in StoredDocuments :
                /\ StateRank(doc) <= 4
                /\ StateRank(doc) >= 3 =>
                      /\ GatewayWaitedFor("primary")
                      /\ net.task.secondary # "none" => GatewayWaitedFor("secondary")
                      /\ net.failover => net.task.secondary # "none"
                /\ StateRank(doc) = 4 =>
                      /\ net.final.primary = "ok"
                      /\ net.final.secondary = (IF net.failover THEN "ok" ELSE "none"))
    /\ [][net.op = "Create" =>
            /\ \A k \in DOMAIN byID \cap DOMAIN byID' :
                  StateRank(byID'[k]) >= StateRank(byID[k])
            /\ \A k \in DOMAIN byName \cap DOMAIN byName' :
                  StateRank(byName'[k]) >= StateRank(byName[k])]_vars

\* an HA Create has stored READY under both indices after the states
\* before it, both gateways made and finalized
C22_Witness ==
    /\ net.op = "Create" /\ net.failover
    /\ net.task = [primary |-> "ok", secondary |-> "ok"]
    /\ net.final = [primary |-> "ok", secondary |-> "ok"]
    /\ TheNetwork.ID \in DOMAIN byID /\ TheNetwork.Name \in DOMAIN byName
    /\ StateRank(byID[TheNetwork.ID]) = 4
    /\ StateRank(byName[TheNetwork.Name]) = 4

\* the creating calls Create itself has made (those of the subtasks apart)
OwnCreatingCalls(n) ==
    Cardinality({i \in 1..Len(n.plog) :
                    n.plog[i] \in {"CreateNetwork", "CreateVIP", "CreateKeyPair"}})

\* C21 (as claimed): once the task is ABORTED, Create makes no further
\* creating call, writes no further metadata, starts no further subtask and
\* returns Aborted.
C21_AbortStopsCreate ==
    [][(net.op = "Create" /\ net.aborted /\ ~net.done) =>
          /\ OwnCreatingCalls(net') = OwnCreatingCalls(net)
          /\ \A w \in {"primary", "secondary"} :
                net.task[w] = "none" => net'.task[w] = "none"
          /\ pc["t1"] \notin {"WriteName", "WriteID"}
          /\ net'.done => net'.xerr = "Aborted"]_vars

(***************************************************************************)
(* Properties of Network.Delete.                                           *)
(***************************************************************************)
\* C3 (as claimed): a Delete of a network whose hosts.v1 has a non-empty
\* ByID returns NotAvailable, calls the provider for nothing and leaves
\* provider and both indices of the metadata as they were.
C3_DeleteRefusedWhileHostsAttached ==
    (/\ net.op = "Delete" /\ net.done
     /\ DOMAIN HostsV1(net.pre[1].props).ByID # {}) =>
        /\ net.xerr = "NotAvailable"
        /\ net.plog = <<>>
        /\ byID = net.pre[1].byID
        /\ byName = net.pre[1].byName
        /\ prov = net.pre[1].prov

\* the Delete has returned
Deleted == net.op = "Delete" /\ net.done

\* the provider call answered Delete with that error
Answered(c, err) ==
    \E i \in 1..Len(net.perr) : net.perr[i] = [call |-> c, err |-> err]

\* neither index holds the network any more
MetadataRemoved ==
    TheNetwork.ID \notin DOMAIN byID /\ TheNetwork.Name \notin DOMAIN byName

\* the gateways the payload names that still have metadata
GatewaysLeft(p) ==
    {shielded[1].GatewayID, shielded[1].SecondaryGatewayID} \cap p.hostmeta

\* the step calls the provider for that
Calls(c) ==
    /\ Len(net'.plog) > Len(net.plog)
    /\ \E i \in (Len(net.plog) + 1)..Len(net'.plog) : net'.plog[i] = c

\* the step removes an entry of the metadata of the network
RemovesMetadata ==
    \/ TheNetwork.ID \in DOMAIN byID /\ TheNetwork.ID \notin DOMAIN byID'
    \/ TheNetwork.Name \in DOMAIN byName /\ TheNetwork.Name \notin DOMAIN byName'

\* the deletion of a gateway has returned an error to the callback
GatewayFailed == \E i \in 1..Len(net.perr) : net.perr[i].call = "deleteGateway"

\* C23: Delete deletes the primary gateway, then the secondary gateway, then
\* the VIP, then the provider network, then the metadata; a gateway whose
\* metadata are not found is passed over; once the deletion of a gateway
\* has failed Delete deletes nothing more and returns that error; the
\* metadata are removed only after a svc.DeleteNetwork without error.
C23_DeleteOrder ==
    /\ [](Deleted /\ GatewayFailed => net.xerr = net.perr[1].err)
    /\ [][(net.op = "Delete" /\ ~net.done /\ shielded # <<>>) =>
            /\ (shielded[1].SecondaryGatewayID \in prov.hosts \ prov'.hosts) =>
                  shielded[1].GatewayID \notin prov.hostmeta
            /\ (Calls("DeleteVIP") \/ Calls("DeleteNetwork")) =>
                  GatewaysLeft(prov) = {}
            /\ (Calls("DeleteNetwork") /\ shielded[1].VIP # "") =>
                  \E i \in 1..Len(net.plog) : net.plog[i] = "DeleteVIP"
            /\ RemovesMetadata =>
                  /\ GatewaysLeft(prov) = {}
                  /\ \E i \in 1..Len(net.plog) : net.plog[i] = "DeleteNetwork"
                  /\ \A i \in 1..Len(net.perr) : net.perr[i].call # "DeleteNetwork"
            /\ GatewayFailed =>
                  (prov' = prov /\ net'.plog = net.plog /\ ~RemovesMetadata)]_vars

\* a Delete has deleted both gateways, the VIP, the provider network and the
\* metadata of a network that had them all
C23_Witness ==
    /\ Deleted /\ net.xerr = "" /\ MetadataRemoved
    /\ net.plog = <<"DeleteHost", "DeleteHost", "DeleteVIP", "DeleteNetwork">>
    /\ net.pre[1].prov.hosts = {"gw-1", "gw-2"}
    /\ prov.hosts = {} /\ ~prov.vip /\ ~prov.network

\* C30: Delete holds the write lock of the network from its first step to its
\* return, takes it again in Alter and in Core.Delete without waiting for
\* itself, always returns, and holds no lock once it has returned.
C30_DeleteReturnsUnlocked ==
    /\ [](net.op = "Delete" /\ ~net.done =>
             /\ lock.owner = "t1" /\ lock.depth >= 1
             /\ pc["t1"] \in {"Alter", "Delete"} => CanLock("t1"))
    /\ [](net.op = "Delete" /\ net.done =>
             /\ pc["t1"] = "idle"
             /\ lock = NewTaskedLock)
    /\ (net.op = "Delete" /\ ~net.done) ~> (net.op = "Delete" /\ net.done)

\* Core.Delete, called by Delete after its Alter, holds the write lock a
\* second time
C30_Witness ==
    /\ net.op = "Delete" /\ ~net.done
    /\ call["t1"].fn = "Delete" /\ pc["t1"] = "Unlock"
    /\ stack["t1"] # <<>>
    /\ lock.owner = "t1" /\ lock.depth = 2

\* what the claim has a method return for the payload an: the IP of the VIP
\* when the VIP has it, else the IP of the primary gateway, else the error of
\* the load
ClaimedIP(an, vipHasIt, vipIP, gwIP, r) ==
    IF an.VIP # "" /\ vipHasIt THEN r.err = "" /\ r.ip = vipIP
    ELSE IF an.GatewayID # "" /\ an.GatewayID \in prov.hostmeta
    THEN r.err = "" /\ r.ip = gwIP
    ELSE r.err \in {"NotFound", "InvalidParameter"} /\ r.ip = NoIP

\* C31: GetDefaultRouteIP returns the private IP of the VIP when the payload
\* has a VIP whose private IP is not empty, else the private IP of the host
\* loaded from GatewayID; GetEndpointIP does the same with the public IPs;
\* both return the error of the load when the gateway cannot be loaded.
C31_RouteAndEndpoint ==
    (net.op \in {"GetDefaultRouteIP", "GetEndpointIP"} /\ net.route # <<>>) =>
        LET an == shielded[1]
        IN  IF net.op = "GetDefaultRouteIP"
            THEN ClaimedIP(an, an.VIP \in {"vip-1", "vip-private"},
                           PrivateIPOf(an.VIP), PrivateIPOf(an.GatewayID),
                           net.route[1])
            ELSE ClaimedIP(an, an.VIP \in {"vip-1", "vip-public"},
                           PublicIPOf(an.VIP), PublicIPOf(an.GatewayID),
                           net.route[1])

\* the default route of a network whose VIP has no private IP is the
\* private IP of its primary gateway
C31_Witness ==
    /\ net.op = "GetDefaultRouteIP" /\ net.route # <<>>
    /\ shielded[1].VIP = "vip-public"
    /\ net.route[1] = [ip |-> PrivateIPOf("gw-1"), err |-> ""]

\* C33 (as claimed): after any AttachHost and DetachHost the two maps of
\* hosts.v1 are inverse of each other, ByID[id] = name iff ByName[name] = id,
\* and so ByID is empty exactly when ByName is.
C33_HostMapsAreInverse ==
    LET nh == HostsV1(properties)
    IN  /\ \A h \in HostIDs, n \in {x.name : x \in Hosts} :
              (h \in DOMAIN nh.ByID /\ nh.ByID[h] = n)
                  <=> (n \in DOMAIN nh.ByName /\ nh.ByName[n] = h)
        /\ (DOMAIN nh.ByID = {}) <=> (DOMAIN nh.ByName = {})

\* the step calls deleteGateway
CallsDeleteGateway == Len(net'.dgw) = Len(net.dgw) + 1

\* C28: deleteGateway deletes the host at the provider and then the metadata
\* of the host, the second whatever the first answered; NotFound counts as
\* success at both steps, every other failure is collected in order; the
\* helper returns nil when nothing was collected and one list error that
\* holds all the collected failures otherwise.
C28_DeleteGatewayCollects ==
    [][CallsDeleteGateway =>
        LET c == net'.dgw[Len(net'.dgw)]
        IN  /\ (c.gw \in prov'.hosts) = (c.gw \in prov.hosts /\ c.host # "")
            /\ (c.gw \in prov'.hostmeta)
                  = (c.gw \in prov.hostmeta /\ c.metadata # "")
            /\ c.errors = SelectSeq(<<c.host, c.metadata>>,
                                    LAMBDA o : o \notin {"", "NotFound"})
            /\ (c.err = "") = (c.errors = <<>>)
            /\ Len(c.errors) = 1 => c.err = c.errors[1]
            /\ Len(c.errors) = 2 => c.err = "ErrList"]_vars

\* both steps of a deleteGateway failed: the host and its metadata are left
\* and the list error holds the two failures
C28_Witness ==
    \E i \in 1..Len(net.dgw) :
        /\ net.dgw[i].host \in {"HostTimeout", "HostError"}
        /\ net.dgw[i].metadata = "MetadataError"
        /\ Len(net.dgw[i].errors) = 2
        /\ net.dgw[i].err = "ErrList"

\* a deleteGateway that found no host at the provider went on to the
\* metadata and returned nil
C28_NotFoundIsSuccess ==
    \E i \in 1..Len(net.dgw) :
        /\ net.dgw[i].host = "NotFound"
        /\ net.dgw[i].err = ""

\* C27: a Delete run by a task that is ABORTED calls the provider for
\* nothing and leaves provider and metadata as they were; it returns Aborted
\* when the callback gets as far as the checkpoint (the metadata were
\* reloaded and hosts.v1 holds no host), and the error of the test of
\* hosts.v1, which comes first, when hosts are still attached.
C27_AbortedDeleteDeletesNothing ==
    (Deleted /\ net.aborted) =>
        /\ net.plog = <<>>
        /\ prov = net.pre[1].prov
        /\ byID = net.pre[1].byID
        /\ byName = net.pre[1].byName
        /\ net.xerr # ""
        /\ net.xerr = "Aborted" => DOMAIN HostsV1(net.pre[1].props).ByName = {}
        /\ (shielded # <<>> /\ TheNetwork.ID \in DOMAIN byID /\ net.pre[1].props # <<>>) =>
              net.xerr = (IF DOMAIN HostsV1(net.pre[1].props).ByName = {}
                          THEN "Aborted" ELSE "NotAvailable")

\* the Delete of a network with two gateways and a VIP, no host attached any
\* more, was run by an aborted task: everything is still there
C27_Witness ==
    /\ Deleted /\ net.aborted /\ net.xerr = "Aborted"
    /\ properties = <<NewNetworkHosts>>
    /\ prov.network /\ prov.vip /\ prov.hosts = {"gw-1", "gw-2"}
    /\ shielded[1].GatewayID = "gw-1"
    /\ TheNetwork.ID \in DOMAIN byID /\ TheNetwork.Name \in DOMAIN byName

\* C15 (as claimed): when svc.DeleteNetwork answers NotFound, Delete still
\* removes byID/<id> and byName/<name>.
C15_NotFoundStillRemovesMetadata ==
    (Deleted /\ Answered("DeleteNetwork", "NotFound")) => MetadataRemoved

\* C16 (as claimed): when svc.DeleteNetwork answers Timeout and the network
\* is gone before the polling of GetNetwork gives up, Delete returns nil and
\* the metadata are removed.
C16_TimeoutThenGoneSucceeds ==
    (Deleted /\ Answered("DeleteNetwork", "Timeout") /\ ~prov.network) =>
        (net.xerr = "" /\ MetadataRemoved)

\* C17: a Delete whose svc.DeleteVIP failed still calls svc.DeleteNetwork;
\* when that call succeeds the provider network is gone and, unless a write
\* or a deletion of the metadata fails, Delete returns nil with the
\* metadata removed.
C17_DeleteVIPFailureIsPassedOver ==
    (Deleted /\ Answered("DeleteVIP", "ProviderError")) =>
        /\ \E i \in 1..Len(net.plog) : net.plog[i] = "DeleteNetwork"
        /\ (\A i \in 1..Len(net.perr) : net.perr[i].call # "DeleteNetwork") =>
              /\ ~prov.network
              /\ net.xerr \in {"", "StorageError"}
              /\ net.xerr = "" => MetadataRemoved

\* svc.DeleteVIP failed, and Delete has returned nil: the VIP is still
\* there, the provider network and the metadata are not
C17_Witness ==
    /\ Deleted /\ Answered("DeleteVIP", "ProviderError")
    /\ net.xerr = "" /\ prov.vip /\ ~prov.network /\ MetadataRemoved

(***************************************************************************)
(* Properties of the error values.                                         *)
(***************************************************************************)
\* the last error of the chain that e begins: the one that has no cause
RECURSIVE DeepestCause(_)
DeepestCause(e) == IF e.Causer = <<>> THEN e ELSE DeepestCause(e.Causer[1])

\* C32 (as claimed): the Cause() of an error that was built by wrapping is
\* the deepest cause of its chain, the error that has no cause of its own.
C32_CauseIsDeepest ==
    (errvals # <<>> /\ errvals[1].asked /\ errvals[1].err.Causer # <<>>) =>
        errvals[1].cause = <<DeepestCause(errvals[1].err)>>


(***************************************************************************)
(* Properties of two Creates of one name.                                  *)
(***************************************************************************)
\* the networks of a name that the metadata knows by id
IDsOfName(n) == {k \in DOMAIN byID : byID[k]["name"] = n}

\* C38 (as claimed): when two tasks run Create with the same name, at most
\* one of them creates a provider network and succeeds, so that the provider
\* never holds more than one network and the metadata never knows two
\* networks of one name
C38_OneCreatePerName ==
    /\ Cardinality(prov.networks) <= 1
    /\ Cardinality({t \in Tasks : pc[t] = "CreateDone" /\ res[t] = "ok"}) <= 1
    /\ Cardinality(IDsOfName("n1")) <= 1

(***************************************************************************)
(* Properties of the paginated listings.                                   *)
(***************************************************************************)
RECURSIVE ItemsOfPages(_, _, _)
ItemsOfPages(f, pages, i) ==
    IF i > Len(pages) THEN <<>>
    ELSE ItemsOfPage(f, i, pages[i]) \o ItemsOfPages(f, pages, i + 1)

RECURSIVE ItemsOfListings(_, _)
ItemsOfListings(provider, f) ==
    IF f > Len(provider) THEN <<>>
    ELSE ItemsOfPages(f, provider[f], 1) \o ItemsOfListings(provider, f + 1)

\* request j is the first of its listing and carries the empty token, or it
\* carries the token of the page the request before it received
EachPageOnce(l) ==
    \A j \in 1..Len(l.requests) :
        l.requests[j][2] =
            Cardinality({h \in 1..(j - 1) : l.requests[h][1] = l.requests[j][1]})

\* C39 (as claimed): a listing of the GCP stack, over a provider listing of
\* any finite number of pages, asks for each page once with the token the
\* page before returned, returns, and when no request failed returns the
\* items of all pages
C39_ListingsTerminate ==
    /\ [](listing # <<>> => EachPageOnce(listing[1]))
    /\ []((listing # <<>> /\ listing[1].done /\ ~listing[1].failed)
            => listing[1].items = ItemsOfListings(listing[1].provider, 1))
    /\ (listing # <<>>) ~> (listing # <<>> /\ listing[1].done)

\* the same for the provider listings of one page only
C39_OnePageListings ==
    /\ []((listing # <<>> /\ \A f \in DOMAIN listing[1].provider :
                                Len(listing[1].provider[f]) = 1)
            => /\ EachPageOnce(listing[1])
               /\ (listing[1].done /\ ~listing[1].failed)
                    => listing[1].items = ItemsOfListings(listing[1].provider, 1))
    /\ (listing # <<>> /\ \A f \in DOMAIN listing[1].provider :
                                Len(listing[1].provider[f]) = 1)
         ~> (listing # <<>> /\ listing[1].done)

(***************************************************************************)
(* Properties of the scanner.                                              *)
(***************************************************************************)
\* analyzeTenant has returned and every analysis has run to its end
ScanComplete ==
    /\ scanner # <<>>
    /\ scanner[1].main = "returned"
    /\ \A k \in 1..scanner[1].n : scanner[1].an[k] \in {"finished", "released"}

\* C40 (as claimed): for every number of templates the channel has capacity
\* min(4, len(templates)/2), never more analyses than the capacity run at
\* once, every analysis is started and analyzeTenant returns after all of
\* them have finished
C40_AllAnalysesRun ==
    /\ [](scanner # <<>> =>
            /\ scanner[1].cap = Concurrency(scanner[1].n)
            /\ Cardinality(RunningAnalyses(scanner[1])) <= scanner[1].cap
            /\ scanner[1].main = "returned" => ScanComplete)
    /\ (scanner # <<>>) ~> ScanComplete

\* the same for every number of templates but 1
C40_NotOneTemplate ==
    /\ [](scanner # <<>> =>
            /\ Cardinality(RunningAnalyses(scanner[1])) <= scanner[1].cap
            /\ scanner[1].main = "returned" => ScanComplete)
    /\ (scanner # <<>> /\ scanner[1].n # 1) ~> ScanComplete

====
